---- MODULE Spec2Model ----
(***************************************************************************)
(* Postcode gallery (App component): the virtual scroll engine, the        *)
(* image-stepping navigation and the presentation state machine.           *)
(*                                                                         *)
(* Pixels are integers.  A catalog index is 0-based, as in the source.     *)
(* A handler and the render it causes (with the effects of that render)    *)
(* form one step: the UI thread runs them without interleaving.            *)
(***************************************************************************)
EXTENDS Integers, Sequences, FiniteSets, TLC

(***************************************************************************)
(* Program constants                                                       *)
(***************************************************************************)
BASE_STEP_HEIGHT == 15

MAX_VIRTUAL_SCROLL_PX == 8000000

MIN_VIRTUAL_CYCLES == 120

SNAP_IMAGE_HOLD_THRESHOLD == 7

\* the value of a `number | null` that is null
NULL == -1

Orientations == {"landscape", "portrait"}

Directions == {1, -1}

(***************************************************************************)
(* Bounds of the model                                                     *)
(***************************************************************************)
\* largest catalog the pure index functions are applied to
MaxPureLength == 5

\* catalogs 1..MaxSizedLength are laid out, and those around the crossover
MaxSizedLength == 60

\* how many catalog sizes on each side of the crossover are laid out
SizeSpread == 12

\* length of the catalog whose images lie more than the hold threshold apart
LongListLength == 9

\* user and environment inputs (clicks, keys, scrolls, resizes) of one run
MaxInputs == 3
\* submissions of the password form in a row
MaxAttempts == 3
\* image requests the background frame issues in one run
MaxRequests == 3
\* directional steps one touch gesture is followed through
MaxGestureSteps == 2
\* inputs to the gallery over the page loads of one browser session
MaxGateInputs == 2
\* inputs after which the locks are followed to their release
MaxLockInputs == 1
\* files of the bundled asset set
MaxIndexFiles == 3
\* lines of the postcode text
MaxRows == 2

\* clientHeight of the scroll layer: small against the list height, as it is
\* with a catalog of thousands of records
ClientHeight == 20


VARIABLES
    LIST_LENGTH,        \* POSTCODES.length
    resolvedImages,     \* orientation -> indices i with RESOLVED_IMAGE_URLS[i] non-null
    app,                \* the App component's state, refs, DOM scroll position and timers
    call                \* the last application of a pure function (pure specifications)

vars == <<LIST_LENGTH, resolvedImages, app, call>>

(***************************************************************************)
(* Arithmetic as the source computes it                                    *)
(***************************************************************************)
\* JavaScript a % n for n > 0: the remainder takes the sign of the dividend
JsRem(a, n) == IF a >= 0 THEN a % n ELSE -((-a) % n)

\* ((a % n) + n) % n
Wrap(a, n) == JsRem(JsRem(a, n) + n, n)

Abs(a) == IF a < 0 THEN -a ELSE a

Min(a, b) == IF a < b THEN a ELSE b

Max(a, b) == IF a > b THEN a ELSE b

\* Math.floor(a / b) for b > 0
FloorDiv(a, b) == a \div b

(***************************************************************************)
(* Virtual layout                                                          *)
(***************************************************************************)
LIST_PIXEL_HEIGHT(n) == n * BASE_STEP_HEIGHT

VirtualMultiplierCeil(n) ==
    IF LIST_PIXEL_HEIGHT(n) <= 0 THEN MIN_VIRTUAL_CYCLES
    ELSE Max(MIN_VIRTUAL_CYCLES,
             (MAX_VIRTUAL_SCROLL_PX + LIST_PIXEL_HEIGHT(n) - 1) \div LIST_PIXEL_HEIGHT(n))

VIRTUAL_MULTIPLIER(n) ==
    IF LIST_PIXEL_HEIGHT(n) <= 0 THEN MIN_VIRTUAL_CYCLES
    ELSE Max(MIN_VIRTUAL_CYCLES,
             FloorDiv(MAX_VIRTUAL_SCROLL_PX, LIST_PIXEL_HEIGHT(n)))

TOTAL_VIRTUAL_HEIGHT(n) == LIST_PIXEL_HEIGHT(n) * VIRTUAL_MULTIPLIER(n)

(***************************************************************************)
(* Image-bearing indices                                                   *)
(***************************************************************************)
RECURSIVE AscendingFrom(_, _, _)
\* the indices k..n-1 that are in S, in catalog order
AscendingFrom(S, k, n) ==
    IF k >= n THEN <<>>
    ELSE (IF k \in S THEN <<k>> ELSE <<>>) \o AscendingFrom(S, k + 1, n)

\* RESOLVED_IMAGE_URLS.map(..).filter(url).map(index): ascending by construction
IMAGE_ENTRY_INDICES(S, n) == AscendingFrom(S, 0, n)

LinearDistanceOf(candidate, normalizedFrom, n) == Abs(candidate - normalizedFrom)

\* rawDistance and circularDistance of the loop body of findNearestImageIndex
circularDistanceOf(candidate, normalizedFrom, n) ==
    LET rawDistance == Abs(candidate - normalizedFrom)
    IN  Min(rawDistance, n - rawDistance)

RECURSIVE NearestLoop(_, _, _, _, _, _)
\* the for-of loop of findNearestImageIndex from position k of the list;
\* min.has = FALSE stands for minDistance = Number.POSITIVE_INFINITY
NearestLoop(indices, n, normalizedFrom, k, nearest, min) ==
    IF k > Len(indices) THEN nearest
    ELSE LET candidate == indices[k]
             circularDistance == circularDistanceOf(candidate, normalizedFrom, n)
         IN  IF ~min.has \/ circularDistance < min.d
             THEN NearestLoop(indices, n, normalizedFrom, k + 1, candidate,
                              [has |-> TRUE, d |-> circularDistance])
             ELSE NearestLoop(indices, n, normalizedFrom, k + 1, nearest, min)

RECURSIVE NearestLoopLastWins(_, _, _, _, _, _)
NearestLoopLastWins(indices, n, normalizedFrom, k, nearest, min) ==
    IF k > Len(indices) THEN nearest
    ELSE LET candidate == indices[k]
             rawDistance == Abs(candidate - normalizedFrom)
             circularDistance == Min(rawDistance, n - rawDistance)
         IN  IF ~min.has \/ circularDistance <= min.d
             THEN NearestLoopLastWins(indices, n, normalizedFrom, k + 1, candidate,
                                      [has |-> TRUE, d |-> circularDistance])
             ELSE NearestLoopLastWins(indices, n, normalizedFrom, k + 1, nearest, min)

RECURSIVE NearestLoopLinear(_, _, _, _, _, _)
NearestLoopLinear(indices, n, normalizedFrom, k, nearest, min) ==
    IF k > Len(indices) THEN nearest
    ELSE LET candidate == indices[k]
             rawDistance == Abs(candidate - normalizedFrom)
         IN  IF ~min.has \/ rawDistance < min.d
             THEN NearestLoopLinear(indices, n, normalizedFrom, k + 1, candidate,
                                    [has |-> TRUE, d |-> rawDistance])
             ELSE NearestLoopLinear(indices, n, normalizedFrom, k + 1, nearest, min)

FindNearestLinear(S, n, fromIndex) ==
    LET indices == IMAGE_ENTRY_INDICES(S, n)
    IN  IF Len(indices) = 0 \/ n = 0 THEN NULL
        ELSE NearestLoopLinear(indices, n, Wrap(fromIndex, n), 1, indices[1],
                               [has |-> FALSE, d |-> 0])

FindNearestLastWins(S, n, fromIndex) ==
    LET indices == IMAGE_ENTRY_INDICES(S, n)
    IN  IF Len(indices) = 0 \/ n = 0 THEN NULL
        ELSE NearestLoopLastWins(indices, n, Wrap(fromIndex, n), 1, indices[1],
                                 [has |-> FALSE, d |-> 0])

\* findNearestImageIndex of a render whose image-bearing set is S
findNearestImageIndex(S, n, fromIndex) ==
    LET indices == IMAGE_ENTRY_INDICES(S, n)
    IN  IF Len(indices) = 0 \/ n = 0 THEN NULL
        ELSE NearestLoop(indices, n, Wrap(fromIndex, n), 1, indices[1],
                         [has |-> FALSE, d |-> 0])

RECURSIVE ForwardLoop(_, _, _)
\* for (const idx of IMAGE_ENTRY_INDICES) if (idx > normalizedFrom) return idx
ForwardLoop(indices, normalizedFrom, k) ==
    IF k > Len(indices) THEN indices[1]
    ELSE IF indices[k] > normalizedFrom THEN indices[k]
    ELSE ForwardLoop(indices, normalizedFrom, k + 1)

RECURSIVE BackwardLoop(_, _, _)
\* for (i = length - 1; i >= 0; i--) if (indices[i] < normalizedFrom) return
BackwardLoop(indices, normalizedFrom, k) ==
    IF k < 1 THEN indices[Len(indices)]
    ELSE IF indices[k] < normalizedFrom THEN indices[k]
    ELSE BackwardLoop(indices, normalizedFrom, k - 1)

RECURSIVE ForwardLoopInclusive(_, _, _)
ForwardLoopInclusive(indices, normalizedFrom, k) ==
    IF k > Len(indices) THEN indices[1]
    ELSE IF indices[k] >= normalizedFrom THEN indices[k]
    ELSE ForwardLoopInclusive(indices, normalizedFrom, k + 1)

FindNextInclusive(S, n, fromIndex, direction) ==
    LET indices == IMAGE_ENTRY_INDICES(S, n)
        normalizedFrom == Wrap(fromIndex, n)
    IN  IF Len(indices) = 0 \/ n = 0 THEN NULL
        ELSE IF direction > 0 THEN ForwardLoopInclusive(indices, normalizedFrom, 1)
        ELSE BackwardLoop(indices, normalizedFrom, Len(indices))

FindNextNoWrap(S, n, fromIndex, direction) ==
    LET indices == IMAGE_ENTRY_INDICES(S, n)
        normalizedFrom == Wrap(fromIndex, n)
    IN  IF Len(indices) = 0 \/ n = 0 THEN NULL
        ELSE IF direction > 0 THEN ForwardLoop(indices, normalizedFrom, 1)
        ELSE IF \E k \in 1..Len(indices) : indices[k] < normalizedFrom
             THEN BackwardLoop(indices, normalizedFrom, Len(indices))
             ELSE indices[1]

\* findNextImageIndex of a render whose image-bearing set is S
findNextImageIndex(S, n, fromIndex, direction) ==
    LET indices == IMAGE_ENTRY_INDICES(S, n)
        normalizedFrom == Wrap(fromIndex, n)
    IN  IF Len(indices) = 0 \/ n = 0 THEN NULL
        ELSE IF direction > 0 THEN ForwardLoop(indices, normalizedFrom, 1)
        ELSE BackwardLoop(indices, normalizedFrom, Len(indices))

RECURSIVE successiveSteps(_, _, _, _, _)
\* the indices reached by k successive calls of findNextImageIndex, each from
\* the result of the one before, the first from fromIndex
successiveSteps(S, n, fromIndex, direction, k) ==
    IF k = 0 THEN <<>>
    ELSE LET next == findNextImageIndex(S, n, fromIndex, direction)
         IN  <<next>> \o successiveSteps(S, n, next, direction, k - 1)

(***************************************************************************)
(* Offsets                                                                 *)
(***************************************************************************)
\* floor((((top % listHeight) + listHeight) % listHeight) / step)
RawIndexNoCycle(top, n) == FloorDiv(top, BASE_STEP_HEIGHT)

RawIndexRounded(top, n) ==
    FloorDiv(Wrap(top, LIST_PIXEL_HEIGHT(n)) + FloorDiv(BASE_STEP_HEIGHT, 2), BASE_STEP_HEIGHT)

RawIndex(top, n) == FloorDiv(Wrap(top, LIST_PIXEL_HEIGHT(n)), BASE_STEP_HEIGHT)

CycleStart(top, n) == FloorDiv(top, LIST_PIXEL_HEIGHT(n)) * LIST_PIXEL_HEIGHT(n)

DirectionalTargetTopNoCarry(n, targetIndex, direction, currentTop) ==
    CycleStart(currentTop, n) + targetIndex * BASE_STEP_HEIGHT

getDirectionalTargetTop(n, targetIndex, direction, currentTop) ==
    LET nextTop0 == CycleStart(currentTop, n) + targetIndex * BASE_STEP_HEIGHT
        nextTop1 == IF direction > 0 /\ nextTop0 <= currentTop
                    THEN nextTop0 + LIST_PIXEL_HEIGHT(n) ELSE nextTop0
    IN  IF direction < 0 /\ nextTop1 >= currentTop
        THEN nextTop1 - LIST_PIXEL_HEIGHT(n) ELSE nextTop1

Indices(n) == 0..(n - 1)

(***************************************************************************)
(* The scroll layer (DOM)                                                  *)
(***************************************************************************)
\* the browser keeps scrollTop in [0, scrollHeight - clientHeight]
MaxScrollTop(n) == TOTAL_VIRTUAL_HEIGHT(n) - ClientHeight

Clamp(top, n) == Max(0, Min(top, MaxScrollTop(n)))

\* element.scrollTop = top, and scrollTo({top, behavior: 'auto'}): the position
\* changes at once, an ongoing smooth scroll is aborted, and a scroll event is
\* dispatched iff the position changed
SetScrollTop(s, top) ==
    LET t == Clamp(top, LIST_LENGTH)
    IN  [s EXCEPT !.scrollTop = t,
                  !.smoothTarget = NULL,
                  !.scrollEvent = @ \/ t # s.scrollTop]

\* scrollTo({top, behavior})
ScrollTo(s, top, behavior) ==
    LET t == Clamp(top, LIST_LENGTH)
    IN  IF behavior = "smooth" /\ t # s.scrollTop
        THEN [s EXCEPT !.smoothTarget = t]
        ELSE SetScrollTop(s, top)

(***************************************************************************)
(* Handlers of App, as functions of the component state                    *)
(***************************************************************************)
\* IMAGE_ENTRY_INDEX_SET of the render with orientation o
IMAGE_ENTRY_INDEX_SET(o) == resolvedImages[o]

ScrollToIndexNoWrap(s, targetIndex, behavior, isImagesMode) ==
    IF ~s.isAuthenticated \/ LIST_LENGTH = 0 THEN s
    ELSE LET nextTop == CycleStart(s.scrollTop, LIST_LENGTH)
                          + targetIndex * BASE_STEP_HEIGHT
         IN  [ScrollTo(s, nextTop, behavior) EXCEPT
                 !.activeIndex = targetIndex, !.isLanded = isImagesMode]

\* a variant that seeks the equivalent offset nearest to the current one
NearestEquivalentTop(currentScroll, targetIndex) ==
    LET lh == LIST_PIXEL_HEIGHT(LIST_LENGTH)
        inCycle == CycleStart(currentScroll, LIST_LENGTH)
                     + Wrap(targetIndex, LIST_LENGTH) * BASE_STEP_HEIGHT
    IN  IF inCycle - currentScroll > lh \div 2 THEN inCycle - lh
        ELSE IF currentScroll - inCycle > lh \div 2 THEN inCycle + lh
        ELSE inCycle

\* nextTop of scrollToIndex
scrollToIndexTop(currentScroll, targetIndex) ==
    LET normalizedIndex == Wrap(targetIndex, LIST_LENGTH)
        cycleStart == CycleStart(currentScroll, LIST_LENGTH)
    IN  cycleStart + normalizedIndex * BASE_STEP_HEIGHT

\* scrollToIndex of a render whose isImagesMode is the last argument; the
\* scroll layer exists (scrollRef.current) only behind the password gate
scrollToIndex(s, targetIndex, behavior, isImagesMode) ==
    IF ~s.isAuthenticated \/ LIST_LENGTH = 0 THEN s
    ELSE LET normalizedIndex == Wrap(targetIndex, LIST_LENGTH)
         IN  [ScrollTo(s, scrollToIndexTop(s.scrollTop, targetIndex), behavior) EXCEPT
                 !.activeIndex = normalizedIndex, !.isLanded = isImagesMode]

CoercionEffectNone(s) == s

\* the effect with dependencies [isImagesMode, activeIndex,
\* findNearestImageIndex, scrollToIndex]
coercionEffect(s) ==
    IF ~s.isImagesMode THEN s
    ELSE LET nearest == findNearestImageIndex(IMAGE_ENTRY_INDEX_SET(s.orientation),
                                              LIST_LENGTH, s.activeIndex)
         IN  IF nearest = NULL THEN s
             ELSE [(IF nearest # s.activeIndex
                    THEN scrollToIndex(s, nearest, "auto", s.isImagesMode)
                    ELSE s) EXCEPT !.isLanded = TRUE]

\* the render after a handler changed the state from old to s, with the
\* effects whose dependencies changed, repeated until no dependency changes
Render(old, s) ==
    IF s.isImagesMode = old.isImagesMode /\ s.activeIndex = old.activeIndex
       /\ s.orientation = old.orientation
    THEN s
    ELSE LET s1 == coercionEffect(s)
         IN  IF s1.activeIndex # s.activeIndex THEN coercionEffect(s1) ELSE s1

InBoundaryZone(top, n) ==
    \/ 2 * top < 3 * LIST_PIXEL_HEIGHT(n)
    \/ 2 * top > 2 * TOTAL_VIRTUAL_HEIGHT(n) - 3 * LIST_PIXEL_HEIGHT(n)

RecenterNoOffset(top, n) ==
    IF InBoundaryZone(top, n)
    THEN FloorDiv(VIRTUAL_MULTIPLIER(n), 2) * LIST_PIXEL_HEIGHT(n)
    ELSE top

\* the scrollTop handleScroll leaves: the middle cycle when in a boundary zone
Recenter(top, n) ==
    LET normalizedOffset == Wrap(top, LIST_PIXEL_HEIGHT(n))
    IN  IF InBoundaryZone(top, n)
        THEN FloorDiv(VIRTUAL_MULTIPLIER(n), 2) * LIST_PIXEL_HEIGHT(n) + normalizedOffset
        ELSE top

\* the closure of the stop timer: the values of the render that armed it
StopClosure(s, index) ==
    [isAltScrollMode |-> s.isAltScrollMode, isImagesMode |-> s.isImagesMode,
     orientation |-> s.orientation, index |-> index]

handleScroll(s) ==
    IF ~s.isAuthenticated \/ LIST_LENGTH = 0 THEN s
    ELSE LET s1 == IF InBoundaryZone(s.scrollTop, LIST_LENGTH)
                   THEN SetScrollTop(s, Recenter(s.scrollTop, LIST_LENGTH))
                   ELSE s
             scrollTop == s1.scrollTop
             rawIndex == RawIndex(scrollTop, LIST_LENGTH)
             imageOnlyTracking == s.isImagesMode
             nearest == findNearestImageIndex(IMAGE_ENTRY_INDEX_SET(s.orientation),
                                              LIST_LENGTH, rawIndex)
             index == IF imageOnlyTracking /\ nearest # NULL THEN nearest ELSE rawIndex
             shouldHoldImageShell == s.isAltScrollMode /\ s.snapImageHold
             s2 == IF index # s.activeIndex
                   THEN [s1 EXCEPT !.activeIndex = index,
                                   !.isLanded = IF ~imageOnlyTracking /\ ~shouldHoldImageShell
                                                THEN FALSE ELSE @]
                   ELSE s1
         IN  [s2 EXCEPT !.stopTimeout = <<StopClosure(s, index)>>]

\* the callback of the stop timer armed with closure c
stopTimeoutCallback(s, c) ==
    LET nearest == findNearestImageIndex(IMAGE_ENTRY_INDEX_SET(c.orientation),
                                         LIST_LENGTH, c.index)
        target == IF s.snapTargetIndex # NULL THEN s.snapTargetIndex ELSE nearest
    IN  IF c.isAltScrollMode /\ ~c.isImagesMode /\ target # NULL
        THEN [(IF target # c.index
               THEN scrollToIndex([s EXCEPT !.snapTargetIndex = NULL],
                                  target, "auto", c.isImagesMode)
               ELSE [s EXCEPT !.snapTargetIndex = NULL])
              EXCEPT !.activeIndex = target, !.isLanded = TRUE]
        ELSE IF c.isImagesMode \/ (c.isAltScrollMode /\ s.snapImageHold)
        THEN [s EXCEPT !.isLanded = TRUE]
        ELSE [s EXCEPT !.isLanded = c.index \in IMAGE_ENTRY_INDEX_SET(c.orientation)]

scrollToDirectionalImage(s, targetIndex, direction, behavior) ==
    IF ~s.isAuthenticated \/ LIST_LENGTH = 0 THEN s
    ELSE LET currentTop == s.scrollTop
             nextTop == getDirectionalTargetTop(LIST_LENGTH, targetIndex, direction, currentTop)
         IN  [ScrollTo(s, nextTop, behavior) EXCEPT !.activeIndex = targetIndex]

\* snapAnim holds the frame callbacks the browser has pending, in the order of
\* their requests; snapAnimRaf says that snapAnimRafRef.current is the id of
\* the last of them.  cancelAnimationFrame(snapAnimRafRef.current):
CancelPendingFrame(s) ==
    IF s.snapAnimRaf /\ s.snapAnim # <<>>
    THEN [s EXCEPT !.snapAnim = SubSeq(@, 1, Len(@) - 1), !.snapAnimRaf = FALSE]
    ELSE s

\* a variant that requests its first frame without cancelling the pending one
AnimateWithoutCancel(s, targetIndex, direction) ==
    IF ~s.isAuthenticated \/ LIST_LENGTH = 0 THEN s
    ELSE LET startTop == s.scrollTop
             targetTop == getDirectionalTargetTop(LIST_LENGTH, targetIndex, direction, startTop)
         IN  IF targetTop = startTop
             THEN [s EXCEPT !.activeIndex = targetIndex]
             ELSE [s EXCEPT !.snapAnim = Append(@, [startTop |-> startTop,
                                                    targetTop |-> targetTop,
                                                    targetIndex |-> targetIndex]),
                            !.snapAnimRaf = TRUE]

\* schedules the first animation frame; a frame already pending is cancelled
animateToDirectionalImage(s, targetIndex, direction) ==
    IF ~s.isAuthenticated \/ LIST_LENGTH = 0 THEN s
    ELSE LET startTop == s.scrollTop
             targetTop == getDirectionalTargetTop(LIST_LENGTH, targetIndex, direction, startTop)
         IN  IF targetTop = startTop
             THEN [s EXCEPT !.activeIndex = targetIndex]
             ELSE [CancelPendingFrame(s) EXCEPT
                      !.snapAnim = Append(@, [startTop |-> startTop,
                                              targetTop |-> targetTop,
                                              targetIndex |-> targetIndex]),
                      !.snapAnimRaf = TRUE]

\* the k-th pending frame callback runs; last = (t >= 1).  Before the last
\* frame it requests the next one
animationStep(s, k, last) ==
    LET a == s.snapAnim[k]
        others == [i \in 1..(Len(s.snapAnim) - 1) |->
                      IF i < k THEN s.snapAnim[i] ELSE s.snapAnim[i + 1]]
    IN  IF ~last
        THEN [SetScrollTop(s, a.startTop + FloorDiv(a.targetTop - a.startTop, 2))
                 EXCEPT !.snapAnim = Append(others, a), !.snapAnimRaf = TRUE]
        ELSE [SetScrollTop(s, a.targetTop) EXCEPT
                 !.activeIndex = a.targetIndex, !.snapAnim = others,
                 !.snapAnimRaf = FALSE]

StepDistance(currentIndex, nextImageIndex, direction) ==
    IF direction > 0
    THEN (IF nextImageIndex > currentIndex
          THEN nextImageIndex - currentIndex
          ELSE LIST_LENGTH - currentIndex + nextImageIndex)
    ELSE (IF nextImageIndex < currentIndex
          THEN currentIndex - nextImageIndex
          ELSE currentIndex + (LIST_LENGTH - nextImageIndex))

\* a step that takes the lock and schedules no release of it
ArmNoLockRelease(s) == s

\* window.setTimeout(() => { altScrollLockRef.current = false }, ...): one
\* more release of the lock is pending
armLockRelease(s) == [s EXCEPT !.lockReleaseTimers = @ + 1]

stepToImage(s, direction) ==
    LET currentIndex == s.activeIndex
        nextImageIndex == findNextImageIndex(IMAGE_ENTRY_INDEX_SET(s.orientation),
                                             LIST_LENGTH, currentIndex, direction)
        distance == StepDistance(currentIndex, nextImageIndex, direction)
        snapOnly == s.isAltScrollMode /\ ~s.isImagesMode
        keepImageShellInSnap == snapOnly /\ distance <= SNAP_IMAGE_HOLD_THRESHOLD
        s1 == [s EXCEPT !.altScrollLock = TRUE,
                        !.snapTargetIndex = IF snapOnly THEN nextImageIndex ELSE @]
        moved ==
            IF keepImageShellInSnap
            THEN scrollToDirectionalImage(
                     [s1 EXCEPT !.snapImageHold = TRUE, !.isLanded = TRUE],
                     nextImageIndex, direction, "auto")
            ELSE LET s2 == [s1 EXCEPT !.isLanded = s.isImagesMode]
                     s3 == IF snapOnly /\ ~s.isMobileViewport
                           THEN animateToDirectionalImage(s2, nextImageIndex, direction)
                           ELSE scrollToDirectionalImage(s2, nextImageIndex, direction,
                                    IF s.isImagesMode THEN "auto" ELSE "smooth")
                 IN  IF snapOnly
                     THEN [s3 EXCEPT !.snapFinalizeTimeout = <<[target |-> nextImageIndex]>>]
                     ELSE s3
    IN  IF nextImageIndex = NULL THEN s
        ELSE armLockRelease(moved)

\* the callback of the snap finalize timer of a step to target (a step of
\* Snap mode: the scrollToIndex it closes over has isImagesMode = false)
snapFinalizeCallback(s, target) ==
    [scrollToIndex(s, target, "auto", FALSE) EXCEPT !.isLanded = TRUE]

\* useImageStepMode
useImageStepMode(s) == s.isAltScrollMode \/ s.isImagesMode

\* the damping of a free-scroll wheel tick, in hundredths, by the circular
\* distance of the record under the scroll offset to the nearest image
WheelEasing(s) ==
    LET rawIndex == RawIndex(s.scrollTop, LIST_LENGTH)
        nearestImageIndex == findNearestImageIndex(IMAGE_ENTRY_INDEX_SET(s.orientation),
                                                   LIST_LENGTH, rawIndex)
        rawDistance == Abs(nearestImageIndex - rawIndex)
        distance == Min(rawDistance, LIST_LENGTH - rawDistance)
    IN  IF nearestImageIndex = NULL THEN 100
        ELSE IF distance <= 1 THEN 2
        ELSE IF distance <= 2 THEN 3
        ELSE IF distance <= 3 THEN 5
        ELSE IF distance <= 5 THEN 8
        ELSE IF distance <= 8 THEN 14
        ELSE IF distance <= 16 THEN 28
        ELSE IF distance <= 30 THEN 50
        ELSE 80

\* deltaY * 0.12 * easing, in the whole pixels the scroll layer keeps
AppliedDelta(s, deltaY) ==
    LET scaled == deltaY * 12 * WheelEasing(s)
    IN  IF scaled >= 0 THEN scaled \div 10000 ELSE -((-scaled) \div 10000)

\* a variant that steps whether or not a step is settling
ForwardWheelIgnoringLock(s, deltaY) ==
    IF ~s.isAuthenticated \/ ~useImageStepMode(s) \/ deltaY = 0 THEN s
    ELSE stepToImage(s, IF deltaY > 0 THEN 1 ELSE -1)

forwardWheelToMain(s, deltaY) ==
    IF ~s.isAuthenticated THEN s
    ELSE IF useImageStepMode(s)
    THEN IF s.isAltScrollMode
         THEN IF deltaY = 0 THEN s
              ELSE IF ~s.isMobileViewport
              THEN IF s.altScrollLock \/ s.snapWheelGestureLock THEN s
                   ELSE LET delta == s.desktopWheelDelta + deltaY
                            s1 == [s EXCEPT !.desktopWheelDelta = delta,
                                            !.desktopWheelResetTimeout = TRUE]
                        IN  IF Abs(delta) < 26 THEN s1
                            ELSE stepToImage(
                                     [s1 EXCEPT !.desktopWheelDelta = 0,
                                                !.snapWheelGestureLock = TRUE,
                                                !.snapWheelGestureTimeout = TRUE],
                                     IF delta > 0 THEN 1 ELSE -1)
              ELSE IF s.altScrollLock \/ s.snapWheelGestureLock THEN s
                   ELSE stepToImage(
                            [s EXCEPT !.snapWheelGestureLock = TRUE,
                                      !.snapWheelGestureTimeout = TRUE],
                            IF deltaY > 0 THEN 1 ELSE -1)
         ELSE IF s.altScrollLock THEN s
              ELSE IF deltaY = 0 THEN s
              ELSE stepToImage(s, IF deltaY > 0 THEN 1 ELSE -1)
    ELSE IF s.isMobileViewport
         THEN SetScrollTop(s, s.scrollTop + deltaY)
         ELSE SetScrollTop(s, s.scrollTop + AppliedDelta(s, deltaY))

\* the touch handlers; clientY is that of the first touch point
handleTouchStart(s, clientY) ==
    IF ~useImageStepMode(s) THEN s
    ELSE [s EXCEPT !.touchStartY = clientY, !.touchStepTriggered = FALSE]

\* a variant that steps on every move beyond the threshold
HandleTouchMoveRepeating(s, clientY) ==
    IF ~useImageStepMode(s) \/ s.touchStartY = NULL THEN s
    ELSE LET delta == s.touchStartY - clientY
         IN  IF Abs(delta) < 24 \/ s.altScrollLock THEN s
             ELSE stepToImage([s EXCEPT !.touchStepTriggered = TRUE],
                              IF delta > 0 THEN 1 ELSE -1)

handleTouchMove(s, clientY) ==
    IF ~useImageStepMode(s) THEN s
    ELSE IF s.touchStepTriggered THEN s
    ELSE IF s.touchStartY = NULL THEN s
    ELSE LET delta == s.touchStartY - clientY
         IN  IF Abs(delta) < 24 THEN s
             ELSE IF s.altScrollLock THEN s
             ELSE stepToImage([s EXCEPT !.touchStepTriggered = TRUE],
                              IF delta > 0 THEN 1 ELSE -1)

handleTouchEnd(s) ==
    [s EXCEPT !.touchStartY = NULL, !.touchStepTriggered = FALSE]

\* the catalog: record i has postcode 200i, but record 2 repeats the postcode
\* of record 0 (two suburbs that share a postcode)
POSTCODES(n) == [i \in Indices(n) |-> <<2, 0, 0, IF i = 2 THEN 0 ELSE i>>]

\* a variant that keeps the last record of a postcode
PostcodeLastIndex(postcode) ==
    LET found == {i \in Indices(LIST_LENGTH) : POSTCODES(LIST_LENGTH)[i] = postcode}
    IN  IF found = {} THEN NULL
        ELSE CHOOSE i \in found : \A j \in found : i >= j

\* POSTCODE_FIRST_INDEX.get(postcode), NULL for undefined
POSTCODE_FIRST_INDEX(postcode) ==
    LET found == {i \in Indices(LIST_LENGTH) : POSTCODES(LIST_LENGTH)[i] = postcode}
    IN  IF found = {} THEN NULL
        ELSE CHOOSE i \in found : \A j \in found : i <= j

jumpToPostcode(s, postcode) ==
    LET foundIdx == POSTCODE_FIRST_INDEX(postcode)
        images == IMAGE_ENTRY_INDEX_SET(s.orientation)
        nearestImage == findNearestImageIndex(images, LIST_LENGTH, foundIdx)
    IN  IF foundIdx = NULL THEN s
        ELSE IF s.isImagesMode
        THEN (IF foundIdx \in images
              THEN scrollToIndex(s, foundIdx, "smooth", s.isImagesMode)
              ELSE IF nearestImage # NULL
              THEN scrollToIndex(s, nearestImage, "smooth", s.isImagesMode)
              ELSE s)
        ELSE scrollToIndex(s, foundIdx, "smooth", s.isImagesMode)

\* a variant that keeps the digits of a postcode that matched no record
HandleDigitKeyKeepsUnmatched(s, key) ==
    LET buffer == Append(s.inputBuffer, key)
        s1 == [s EXCEPT !.inputBuffer = buffer, !.inputTimeout = TRUE]
    IN  IF Len(buffer) = 4 /\ POSTCODE_FIRST_INDEX(buffer) # NULL
        THEN [jumpToPostcode(s1, buffer) EXCEPT !.inputBuffer = <<>>]
        ELSE IF Len(buffer) > 4 THEN [s1 EXCEPT !.inputBuffer = <<key>>]
        ELSE s1

\* handleKeyDown for a digit key
handleDigitKey(s, key) ==
    LET buffer == Append(s.inputBuffer, key)
        s1 == [s EXCEPT !.inputBuffer = buffer, !.inputTimeout = TRUE]
    IN  IF Len(buffer) = 4
        THEN [jumpToPostcode(s1, buffer) EXCEPT !.inputBuffer = <<>>]
        ELSE s1

SITE_PASSWORD == "passcode"

\* variants: the error of an earlier attempt is left in place; letter case
\* is ignored
HandleUnlockKeepError(s, passwordInput) ==
    IF passwordInput = SITE_PASSWORD
    THEN [s EXCEPT !.isAuthenticated = TRUE, !.sessionOk = TRUE]
    ELSE [s EXCEPT !.authError = "Incorrect password"]

HandleUnlockIgnoreCase(s, passwordInput) ==
    IF passwordInput \in {SITE_PASSWORD, "Passcode", "PASSCODE"}
    THEN [s EXCEPT !.isAuthenticated = TRUE, !.authError = "", !.sessionOk = TRUE]
    ELSE [s EXCEPT !.authError = "Incorrect password"]

handleUnlock(s, passwordInput) ==
    IF passwordInput = SITE_PASSWORD
    THEN [s EXCEPT !.isAuthenticated = TRUE, !.authError = "", !.sessionOk = TRUE]
    ELSE [s EXCEPT !.authError = "Incorrect password"]

(***************************************************************************)
(* The navigation model                                                    *)
(***************************************************************************)
\* the catalogs of the model: short ones, where landscape images exist for any
\* set of records but the last and portrait images for the complement, and a
\* long one whose images are further apart than SNAP_IMAGE_HOLD_THRESHOLD
ShortLengths == {1, 2, 3}

ShortCatalogs(n) ==
    {[n |-> n, images |-> [o \in Orientations |->
                             IF o = "landscape" THEN S ELSE Indices(n) \ S]] :
        S \in SUBSET Indices(n - 1)}

Catalogs ==
    UNION {ShortCatalogs(n) : n \in ShortLengths}
    \cup
    {[n |-> LongListLength,
      images |-> [o \in Orientations |->
                    IF o = "landscape" THEN {0, LongListLength - 1} ELSE {1}]]}

\* the cycles a user scrolls to: the first, the middle and the last
ProbeCycles(n) == {0, FloorDiv(VIRTUAL_MULTIPLIER(n), 2), VIRTUAL_MULTIPLIER(n) - 1}

\* the records a user starts from, clicks, scrolls to or types the postcode of
ProbeIndices(n) == IF n \in ShortLengths THEN Indices(n) ELSE {0, n - 1}

\* the offsets a user scrolls to: the start of a record and its last pixel
ProbeTops(n) ==
    {Clamp(c * LIST_PIXEL_HEIGHT(n) + i * BASE_STEP_HEIGHT + f, n) :
        c \in ProbeCycles(n), i \in ProbeIndices(n), f \in {0, BASE_STEP_HEIGHT - 1}}

\* s with one more input counted
Input(s) == [s EXCEPT !.inputs = @ + 1]

NoCall == [fn |-> "none"]

Passwords == {SITE_PASSWORD, "Passcode"}

Init ==
    /\ \E c \in Catalogs :
          /\ LIST_LENGTH = c.n
          /\ resolvedImages = c.images
    /\ call = NoCall
    /\ \E initialIndex \in ProbeIndices(LIST_LENGTH), saved \in BOOLEAN,
          mobile \in BOOLEAN :
          app = [isAuthenticated |-> saved, sessionOk |-> saved, authError |-> "",
                 orientation |-> "landscape", isMobileViewport |-> mobile,
                 isAltScrollMode |-> TRUE, isImagesMode |-> FALSE,
                 activeIndex |-> initialIndex, isLanded |-> FALSE,
                 scrollTop |-> 0, scrollEvent |-> FALSE, smoothTarget |-> NULL,
                 stopTimeout |-> <<>>, snapFinalizeTimeout |-> <<>>,
                 snapTargetIndex |-> NULL, snapAnim |-> <<>>, snapAnimRaf |-> FALSE,
                 altScrollLock |-> FALSE, lockReleaseTimers |-> 0,
                 snapWheelGestureLock |-> FALSE, snapWheelGestureTimeout |-> FALSE,
                 desktopWheelDelta |-> 0, desktopWheelResetTimeout |-> FALSE,
                 touchStartY |-> NULL, touchStepTriggered |-> FALSE,
                 snapImageHold |-> FALSE,
                 inputBuffer |-> <<>>, inputTimeout |-> FALSE, inputs |-> 0]

\* a handler took the state to s: the render and its effects follow
Commit(s) ==
    LET r == Render(app, s)
    IN  /\ r.inputs <= MaxInputs
        /\ app' = r
        /\ UNCHANGED <<LIST_LENGTH, resolvedImages, call>>

SubmitPassword ==
    /\ ~app.isAuthenticated
    /\ \E pw \in Passwords : Commit(handleUnlock(Input(app), pw))

\* the user scrolls the scroll layer (it takes pointer input in free scroll only)
UserScroll ==
    /\ app.isAuthenticated /\ ~app.isAltScrollMode /\ ~app.isImagesMode
    /\ \E top \in ProbeTops(LIST_LENGTH) :
          /\ top # app.scrollTop
          /\ Commit(SetScrollTop(Input(app), top))

\* the browser advances a smooth scroll: half way, or to its target
SmoothScrollFrame ==
    /\ app.smoothTarget # NULL
    /\ \E top \in {app.scrollTop + FloorDiv(app.smoothTarget - app.scrollTop, 2),
                   app.smoothTarget} :
          Commit([app EXCEPT !.scrollTop = top,
                             !.scrollEvent = @ \/ top # app.scrollTop,
                             !.smoothTarget = IF top = app.smoothTarget THEN NULL ELSE @])

ScrollEvent ==
    /\ app.scrollEvent
    /\ Commit(handleScroll([app EXCEPT !.scrollEvent = FALSE]))

StopTimeoutFires ==
    /\ app.stopTimeout # <<>>
    /\ Commit(stopTimeoutCallback([app EXCEPT !.stopTimeout = <<>>], app.stopTimeout[1]))

SnapFinalizeFires ==
    /\ app.snapFinalizeTimeout # <<>>
    /\ Commit(snapFinalizeCallback([app EXCEPT !.snapFinalizeTimeout = <<>>],
                                   app.snapFinalizeTimeout[1].target))

LockReleaseFires ==
    /\ app.lockReleaseTimers > 0
    /\ Commit([app EXCEPT !.lockReleaseTimers = @ - 1, !.altScrollLock = FALSE])

\* Date.now() passes snapImageHoldUntilRef.current
HoldExpires ==
    /\ app.snapImageHold
    /\ Commit([app EXCEPT !.snapImageHold = FALSE])

AnimationFrame ==
    /\ \E k \in 1..Len(app.snapAnim), last \in BOOLEAN :
          Commit(animationStep(app, k, last))

\* a dot of the side rail: scrollToIndex(entry.firstIndex)
SidebarDotClick ==
    /\ app.isAuthenticated
    /\ \E i \in ProbeIndices(LIST_LENGTH) :
          /\ POSTCODE_FIRST_INDEX(POSTCODES(LIST_LENGTH)[i]) = i
          /\ Commit(scrollToIndex(Input(app), i, "auto", app.isImagesMode))

\* ArrowDown / ArrowUp (the listener is on window, also in front of the gate)
KeyArrow ==
    /\ app.isAltScrollMode \/ app.isImagesMode
    /\ \E d \in Directions : Commit(stepToImage(Input(app), d))

\* the postcodes a user types: those of the probed records and one of no record
ProbeCodes ==
    {POSTCODES(LIST_LENGTH)[i] : i \in ProbeIndices(LIST_LENGTH)} \cup {<<2, 0, 1, 0>>}

\* a digit key; typing a postcode counts as one input, at its first digit
KeyDigit ==
    \E code \in ProbeCodes :
        LET k == Len(app.inputBuffer) + 1
        IN  /\ SubSeq(code, 1, k - 1) = app.inputBuffer
            /\ Commit(handleDigitKey(IF k = 1 THEN Input(app) ELSE app, code[k]))

\* 1.5 s without a digit key
InputTimeoutFires ==
    /\ app.inputTimeout
    /\ Commit([app EXCEPT !.inputTimeout = FALSE, !.inputBuffer = <<>>])

SetScrollMode ==
    /\ app.isAuthenticated
    /\ \E alt \in BOOLEAN : Commit([Input(app) EXCEPT !.isAltScrollMode = alt])

ToggleImagesMode ==
    /\ app.isAuthenticated
    /\ Commit([Input(app) EXCEPT !.isImagesMode = ~@])

\* the device is rotated, or the window resized across the diagonal
Resize ==
    \E o \in Orientations \ {app.orientation} :
        Commit([Input(app) EXCEPT !.orientation = o])

\* the steps that do not depend on the digits typed so far
Others ==
    \/ SubmitPassword
    \/ UserScroll
    \/ SmoothScrollFrame
    \/ StopTimeoutFires
    \/ SnapFinalizeFires
    \/ LockReleaseFires
    \/ HoldExpires
    \/ AnimationFrame
    \/ SidebarDotClick
    \/ KeyArrow
    \/ SetScrollMode
    \/ ToggleImagesMode
    \/ Resize

\* Scheduling.  The scroll event of a position change is dispatched before
\* the next timer or input task.  No handler but handleKeyDown reads the digit
\* buffer, so the digits of a postcode are taken as typed without another step
\* in between (any other interleaving commutes with this one).
Next ==
    \/ ScrollEvent
    \/ ~app.scrollEvent /\ (KeyDigit \/ InputTimeoutFires)
    \/ ~app.scrollEvent /\ app.inputBuffer = <<>> /\ Others

Spec == Init /\ [][Next]_vars

(***************************************************************************)
(* One directional step in Snap mode, then no further input                *)
(***************************************************************************)
\* nothing is pending: no scroll event, smooth scroll, animation or timer
Quiescent(s) ==
    /\ ~s.scrollEvent /\ s.smoothTarget = NULL /\ s.snapAnim = <<>>
    /\ s.stopTimeout = <<>> /\ s.snapFinalizeTimeout = <<>>
    /\ s.lockReleaseTimers = 0 /\ ~s.snapImageHold /\ ~s.inputTimeout

\* ArrowDown / ArrowUp in Snap mode (a wheel step and a touch drag make the
\* same call of stepToImage); the step is recorded in call
StepTaken ==
    /\ call = NoCall
    /\ app.isAuthenticated /\ app.isAltScrollMode /\ ~app.isImagesMode
    /\ ~app.scrollEvent /\ app.inputBuffer = <<>>
    /\ \E d \in Directions :
          LET target == findNextImageIndex(IMAGE_ENTRY_INDEX_SET(app.orientation),
                                           LIST_LENGTH, app.activeIndex, d)
              r == Render(app, stepToImage(Input(app), d))
          IN  /\ target # NULL
              /\ r.inputs <= MaxInputs
              /\ app' = r
              /\ call' = [fn |-> "stepToImage", from |-> app.activeIndex,
                          direction |-> d, target |-> target,
                          distance |-> StepDistance(app.activeIndex, target, d),
                          inFlight |-> app.snapAnim,
                          quiescent |-> Quiescent(app)]
              /\ UNCHANGED <<LIST_LENGTH, resolvedImages>>

\* the browser's tasks that need no input: scroll events, frames and timers
Tasks ==
    \/ ScrollEvent
    \/ ~app.scrollEvent /\
          (\/ SmoothScrollFrame
           \/ StopTimeoutFires
           \/ SnapFinalizeFires
           \/ LockReleaseFires
           \/ HoldExpires
           \/ AnimationFrame)

\* before the recorded step the user unlocks the gallery and steps through it
BeforeStep ==
    /\ call = NoCall
    /\ \/ Tasks
       \/ ~app.scrollEvent /\ (SubmitPassword \/ KeyArrow)

AfterStep == call # NoCall /\ Tasks

SettleNext ==
    \/ BeforeStep
    \/ StepTaken
    \/ AfterStep

\* the frame on which the animation's duration has elapsed
FinalAnimationFrame ==
    /\ \E k \in 1..Len(app.snapAnim) : Commit(animationStep(app, k, TRUE))

\* Every pending task is eventually run.  A timer or the end of an animation
\* can be postponed by scroll events, which are dispatched first, but not for
\* ever: its delay elapses.
SpecSettle ==
    /\ Init /\ [][SettleNext]_vars
    /\ WF_vars(AfterStep)
    /\ SF_vars(call # NoCall /\ ~app.scrollEvent /\ FinalAnimationFrame)
    /\ SF_vars(call # NoCall /\ ~app.scrollEvent /\ SnapFinalizeFires)
    /\ SF_vars(call # NoCall /\ ~app.scrollEvent /\ StopTimeoutFires)

(***************************************************************************)
(* Unmounting the gallery                                                  *)
(***************************************************************************)
\* the cleanup of the mount effect: the wheel-gesture, wheel-delta and snap
\* finalize timers are cleared and the animation frame cancelled (the
\* sidebar-align timer, which this model does not hold, is cleared by it as
\* well); the scroll layer leaves the document, so it dispatches no further
\* scroll event
teardown(s) ==
    [CancelPendingFrame(s) EXCEPT !.snapFinalizeTimeout = <<>>,
              !.snapWheelGestureTimeout = FALSE,
              !.desktopWheelResetTimeout = FALSE,
              !.scrollEvent = FALSE, !.smoothTarget = NULL]

\* the callbacks the browser still holds for the component
PendingCallbacks(s) ==
    {cb \in {"scroll-stop", "digit-buffer reset", "lock release",
             "snap finalize", "animation frame"} :
        \/ cb = "scroll-stop" /\ s.stopTimeout # <<>>
        \/ cb = "digit-buffer reset" /\ s.inputTimeout
        \/ cb = "lock release" /\ s.lockReleaseTimers > 0
        \/ cb = "snap finalize" /\ s.snapFinalizeTimeout # <<>>
        \/ cb = "animation frame" /\ s.snapAnim # <<>>}

\* the state after the callback has run in the unmounted component: scrollRef
\* is null and state setters have no effect, refs are still written
AfterCallback(s, cb) ==
    CASE cb = "scroll-stop" -> [s EXCEPT !.stopTimeout = <<>>, !.snapTargetIndex = NULL]
      [] cb = "digit-buffer reset" -> [s EXCEPT !.inputTimeout = FALSE, !.inputBuffer = <<>>]
      [] cb = "lock release" -> [s EXCEPT !.lockReleaseTimers = @ - 1, !.altScrollLock = FALSE]
      [] cb = "snap finalize" -> [s EXCEPT !.snapFinalizeTimeout = <<>>]
      [] cb = "animation frame" -> [s EXCEPT !.snapAnim = Tail(@)]

\* while mounted: the user unlocks the gallery, steps through it and types
\* postcode digits
Mounted ==
    /\ call = NoCall
    /\ \/ Tasks
       \/ ~app.scrollEvent /\ (SubmitPassword \/ KeyArrow \/ KeyDigit \/ InputTimeoutFires)

Unmount ==
    /\ call = NoCall
    /\ app' = teardown(app)
    /\ call' = [fn |-> "unmount", fired |-> {}]
    /\ UNCHANGED <<LIST_LENGTH, resolvedImages>>

CallbackFiresAfterUnmount ==
    /\ call.fn = "unmount"
    /\ \E cb \in PendingCallbacks(app) :
          /\ app' = AfterCallback(app, cb)
          /\ call' = [call EXCEPT !.fired = @ \cup {cb}]
    /\ UNCHANGED <<LIST_LENGTH, resolvedImages>>

TeardownNext ==
    \/ Mounted
    \/ Unmount
    \/ CallbackFiresAfterUnmount

SpecTeardown == Init /\ [][TeardownNext]_vars

(***************************************************************************)
(* The functions of the scroll engine applied to arranged inputs           *)
(***************************************************************************)
AllCatalogs ==
    UNION {{[n |-> n, images |-> [o \in Orientations |->
                                    IF o = "landscape" THEN S ELSE Indices(n) \ S]] :
               S \in SUBSET Indices(n)} : n \in 1..MaxPureLength}

\* the gallery behind the gate, at rest
RestingApp ==
    [isAuthenticated |-> TRUE, sessionOk |-> TRUE, authError |-> "",
     orientation |-> "landscape", isMobileViewport |-> FALSE,
     isAltScrollMode |-> TRUE, isImagesMode |-> FALSE,
     activeIndex |-> 0, isLanded |-> FALSE,
     scrollTop |-> 0, scrollEvent |-> FALSE, smoothTarget |-> NULL,
     stopTimeout |-> <<>>, snapFinalizeTimeout |-> <<>>,
     snapTargetIndex |-> NULL, snapAnim |-> <<>>, snapAnimRaf |-> FALSE,
     altScrollLock |-> FALSE, lockReleaseTimers |-> 0,
                 snapWheelGestureLock |-> FALSE, snapWheelGestureTimeout |-> FALSE,
                 desktopWheelDelta |-> 0, desktopWheelResetTimeout |-> FALSE,
                 touchStartY |-> NULL, touchStepTriggered |-> FALSE,
     snapImageHold |-> FALSE,
     inputBuffer |-> <<>>, inputTimeout |-> FALSE, inputs |-> 0]

\* offsets the scroll layer reports: around both ends of the virtual range
\* (an overscrolled layer reports offsets beyond them), around the edges of the
\* two boundary zones, and inside the first, middle and last cycles
ArrangedTops(n) ==
    LET lh == LIST_PIXEL_HEIGHT(n)
        total == TOTAL_VIRTUAL_HEIGHT(n)
        edge == (3 * lh) \div 2
    IN  {-lh - 1, -BASE_STEP_HEIGHT, -1, 0, 1, lh - 1, lh,
         edge - 1, edge, edge + 1,
         total - edge - 1, total - edge, total - edge + 1,
         total - lh, total - 1, total, total + 1}
        \cup {c * lh + i * BASE_STEP_HEIGHT + f :
                 c \in ProbeCycles(n), i \in {0, n - 1}, f \in {0, BASE_STEP_HEIGHT - 1}}

CallsInit ==
    /\ \E c \in AllCatalogs : LIST_LENGTH = c.n /\ resolvedImages = c.images
    /\ app = RestingApp
    /\ call = NoCall

Images == IMAGE_ENTRY_INDEX_SET(app.orientation)

\* the gallery in a navigation mode with the record `active` shown: the state
\* the render that entered the mode leaves (ImagesOnly shows an image-bearing
\* record when there is one); the mode buttons exist only behind the gate
Arranged(auth, alt, img, active) ==
    LET s == [RestingApp EXCEPT !.isAuthenticated = auth, !.isAltScrollMode = alt,
                                !.isImagesMode = img, !.activeIndex = active]
    IN  [coercionEffect(s) EXCEPT !.scrollEvent = FALSE]

ArrangedModes ==
    {m \in [auth : BOOLEAN, alt : BOOLEAN, img : BOOLEAN] :
        ~m.auth => (m.alt /\ ~m.img)}

ApplyScrollToIndex ==
    /\ call = NoCall
    /\ \E i \in (-2 * LIST_LENGTH)..(2 * LIST_LENGTH), m \in ArrangedModes,
          active \in {0, LIST_LENGTH - 1} :
        LET s == Arranged(m.auth, m.alt, m.img, active)
        IN  /\ app' = Render(s, scrollToIndex(s, i, "auto", s.isImagesMode))
            /\ call' = [fn |-> "scrollToIndex", targetIndex |-> i,
                        activeIndex |-> s.activeIndex]
            /\ UNCHANGED <<LIST_LENGTH, resolvedImages>>

\* scrollToIndex called at an arranged offset; the record keeps the offset the
\* call hands to scrollTo
ApplySeek ==
    /\ call = NoCall
    /\ \E i \in (-2 * LIST_LENGTH)..(2 * LIST_LENGTH),
          top \in ArrangedTops(LIST_LENGTH), behavior \in {"auto", "smooth"} :
        LET s == [RestingApp EXCEPT !.scrollTop = top]
        IN  /\ app' = Render(s, scrollToIndex(s, i, behavior, s.isImagesMode))
            /\ call' = [fn |-> "scrollTo", targetIndex |-> i, currentScroll |-> top,
                        top |-> scrollToIndexTop(top, i), behavior |-> behavior]
            /\ UNCHANGED <<LIST_LENGTH, resolvedImages>>

ApplyHandleScroll ==
    /\ call = NoCall
    /\ \E top \in ArrangedTops(LIST_LENGTH), alt \in BOOLEAN, img \in BOOLEAN,
          hold \in BOOLEAN, active \in {0, LIST_LENGTH - 1} :
        LET s == [Arranged(TRUE, alt, img, active) EXCEPT
                     !.snapImageHold = hold, !.scrollTop = top]
        IN  /\ app' = Render(s, handleScroll(s))
            /\ call' = [fn |-> "handleScroll", scrollTop |-> top]
            /\ UNCHANGED <<LIST_LENGTH, resolvedImages>>

ApplyFindNearestImageIndex ==
    /\ call = NoCall
    /\ \E i \in (-LIST_LENGTH)..(2 * LIST_LENGTH) :
        /\ call' = [fn |-> "findNearestImageIndex", fromIndex |-> i,
                    result |-> findNearestImageIndex(Images, LIST_LENGTH, i)]
        /\ UNCHANGED <<LIST_LENGTH, resolvedImages, app>>

ApplyFindNextImageIndex ==
    /\ call = NoCall
    /\ \E i \in (-LIST_LENGTH)..(2 * LIST_LENGTH), d \in Directions :
        /\ call' = [fn |-> "findNextImageIndex", fromIndex |-> i, direction |-> d,
                    result |-> findNextImageIndex(Images, LIST_LENGTH, i, d)]
        /\ UNCHANGED <<LIST_LENGTH, resolvedImages, app>>

\* a step forward followed by a step backward from where it arrived
ApplyFindNextBack ==
    /\ call.fn = "findNextImageIndex" /\ call.direction = 1 /\ call.result # NULL
    /\ call' = [fn |-> "forwardThenBackward", fromIndex |-> call.fromIndex,
                forward |-> call.result,
                result |-> findNextImageIndex(Images, LIST_LENGTH, call.result, -1)]
    /\ UNCHANGED <<LIST_LENGTH, resolvedImages, app>>

ApplyGetDirectionalTargetTop ==
    /\ call = NoCall
    /\ \E t \in Indices(LIST_LENGTH), d \in Directions,
       c \in {top \in ArrangedTops(LIST_LENGTH) : top >= 0} :
        /\ call' = [fn |-> "getDirectionalTargetTop", targetIndex |-> t,
                    direction |-> d, currentTop |-> c,
                    result |-> getDirectionalTargetTop(LIST_LENGTH, t, d, c)]
        /\ UNCHANGED <<LIST_LENGTH, resolvedImages, app>>

ApplyCircularDistance ==
    /\ call = NoCall
    /\ \E a \in Indices(LIST_LENGTH), b \in Indices(LIST_LENGTH) :
        /\ call' = [fn |-> "circularDistance", a |-> a, b |-> b,
                    ab |-> circularDistanceOf(a, b, LIST_LENGTH),
                    ba |-> circularDistanceOf(b, a, LIST_LENGTH)]
        /\ UNCHANGED <<LIST_LENGTH, resolvedImages, app>>

\* as many steps as there are image-bearing indices, in each direction
ApplySuccessiveSteps ==
    /\ call = NoCall
    /\ \E start \in Images :
        /\ call' = [fn |-> "successiveSteps", start |-> start,
                    forward |-> successiveSteps(Images, LIST_LENGTH, start, 1,
                                                Cardinality(Images)),
                    backward |-> successiveSteps(Images, LIST_LENGTH, start, -1,
                                                 Cardinality(Images))]
        /\ UNCHANGED <<LIST_LENGTH, resolvedImages, app>>

\* what the user can have typed into the password field
TypedPasswords == {SITE_PASSWORD, "Passcode", "PASSCODE", "passcode ", "pass", ""}

\* the password form is submitted, up to MaxAttempts times in a row while the
\* gate is shown; the first submission finds the gate as the first render
\* leaves it
ApplyHandleUnlock ==
    /\ \/ call = NoCall
       \/ call.fn = "handleUnlock" /\ ~app.isAuthenticated
                                   /\ call.attempts < MaxAttempts
    /\ \E passwordInput \in TypedPasswords, active \in {0, LIST_LENGTH - 1} :
        LET s == IF call = NoCall
                 THEN [Arranged(FALSE, TRUE, FALSE, active) EXCEPT
                          !.sessionOk = FALSE]
                 ELSE app
        IN  /\ app' = Render(s, handleUnlock(s, passwordInput))
            /\ call' = [fn |-> "handleUnlock", passwordInput |-> passwordInput,
                        before |-> s,
                        attempts |-> IF call = NoCall THEN 1
                                     ELSE call.attempts + 1]
            /\ UNCHANGED <<LIST_LENGTH, resolvedImages>>

\* the digits a user types: the postcode of every record and one of no record
TypedCodes ==
    {POSTCODES(LIST_LENGTH)[i] : i \in Indices(LIST_LENGTH)} \cup {<<2, 0, 1, 0>>}

\* the k-th digit of a code is typed after its first k - 1 digits
ApplyHandleKeyDown ==
    /\ call = NoCall
    /\ \E code \in TypedCodes, k \in 1..4, m \in ArrangedModes,
          active \in {0, LIST_LENGTH - 1} :
        LET s == [Arranged(m.auth, m.alt, m.img, active) EXCEPT
                     !.inputBuffer = SubSeq(code, 1, k - 1),
                     !.inputTimeout = (k > 1)]
        IN  /\ app' = Render(s, handleDigitKey(s, code[k]))
            /\ call' = [fn |-> "handleKeyDown", typed |-> SubSeq(code, 1, k),
                        before |-> s]
            /\ UNCHANGED <<LIST_LENGTH, resolvedImages>>

\* 1.5 s pass after the digit key
ApplyInputTimeout ==
    /\ call.fn = "handleKeyDown"
    /\ app.inputTimeout
    /\ app' = Render(app, [app EXCEPT !.inputTimeout = FALSE, !.inputBuffer = <<>>])
    /\ call' = [fn |-> "inputTimeout", before |-> app]
    /\ UNCHANGED <<LIST_LENGTH, resolvedImages>>

\* the coercion effect run on a render of ImagesOnly mode, and run again on
\* the render its own seek causes
ApplyCoercionEffect ==
    /\ call = NoCall
    /\ \E i \in Indices(LIST_LENGTH), o \in Orientations, alt \in BOOLEAN,
          cycle \in {0, VIRTUAL_MULTIPLIER(LIST_LENGTH) \div 2} :
          LET s == [RestingApp EXCEPT
                       !.isImagesMode = TRUE, !.isAltScrollMode = alt,
                       !.orientation = o, !.activeIndex = i,
                       !.scrollTop = cycle * LIST_PIXEL_HEIGHT(LIST_LENGTH)
                                        + i * BASE_STEP_HEIGHT]
              once == coercionEffect(s)
          IN  call' = [fn |-> "coercionEffect", before |-> s, once |-> once,
                       twice |-> coercionEffect(once)]
    /\ UNCHANGED <<LIST_LENGTH, resolvedImages, app>>

CallsNext ==
    \/ ApplyCoercionEffect
    \/ ApplyScrollToIndex
    \/ ApplyHandleScroll
    \/ ApplyFindNearestImageIndex
    \/ ApplyFindNextImageIndex
    \/ ApplyFindNextBack
    \/ ApplyGetDirectionalTargetTop
    \/ ApplyCircularDistance
    \/ ApplySuccessiveSteps
    \/ ApplyHandleUnlock
    \/ ApplyHandleKeyDown
    \/ ApplyInputTimeout
    \/ ApplySeek

SpecCalls == CallsInit /\ [][CallsNext]_vars

(***************************************************************************)
(* Input fanout: wheel, touch and arrow keys                               *)
(***************************************************************************)
\* In this specification call is a log of the inputs, which the code does not
\* keep: the last wheel event with what it found and did, whether the
\* lock-release timer of the last step a wheel event started is still pending,
\* and the steps of the touch gesture in progress.
InputLog ==
    [fn |-> "inputFanout", wheel |-> <<>>, wheelStep |-> "none",
     touchOpen |-> FALSE, touchSteps |-> 0, touchDrag |-> 0, strayStep |-> FALSE]

\* the gallery behind the gate in one of its three modes, on a short catalog
\* of three records or on the long one
InputCatalogs == {c \in Catalogs : c.n \in {3, LongListLength}}

InputInit ==
    /\ \E c \in InputCatalogs :
          /\ LIST_LENGTH = c.n
          /\ resolvedImages = c.images
    /\ call = InputLog
    /\ \E initialIndex \in ProbeIndices(LIST_LENGTH), mobile \in BOOLEAN,
          m \in ArrangedModes :
          /\ m.auth
          /\ app = [Arranged(TRUE, m.alt, m.img, initialIndex) EXCEPT
                       !.isMobileViewport = mobile]

\* deltaY of the wheel events: a notch up, a horizontal tick, half a notch down
WheelDeltas == {-30, 0, 13}

\* clientY of the touch points: a gesture starts at TouchStartY and moves by
\* less than the threshold of 24 pixels and by exactly the threshold
TouchStartY == 100
TouchMoveYs == {TouchStartY - 24, TouchStartY - 23, TouchStartY + 24}

Wheel ==
    \E deltaY \in WheelDeltas :
        LET r == Render(app, forwardWheelToMain(Input(app), deltaY))
            stepped == r.lockReleaseTimers > app.lockReleaseTimers
        IN  /\ r.inputs <= MaxInputs
            /\ app' = r
            /\ call' = [call EXCEPT
                          !.wheel = <<[lockBefore |-> app.altScrollLock,
                                       stepMode |-> useImageStepMode(app),
                                       reached |->
                                           IF app.isAltScrollMode /\ ~app.isMobileViewport
                                           THEN Abs(app.desktopWheelDelta + deltaY) >= 26
                                           ELSE deltaY # 0,
                                       stepped |-> stepped,
                                       moved |-> r.scrollTop # app.scrollTop]>>,
                          !.wheelStep = IF stepped THEN "settling" ELSE @]
            /\ UNCHANGED <<LIST_LENGTH, resolvedImages>>

TouchStart ==
    LET r == Render(app, handleTouchStart(Input(app), TouchStartY))
    IN  /\ r.inputs <= MaxInputs
        /\ app' = r
        /\ call' = [call EXCEPT !.touchOpen = TRUE, !.touchSteps = 0]
        /\ UNCHANGED <<LIST_LENGTH, resolvedImages>>

TouchMove ==
    /\ call.touchSteps < MaxGestureSteps
    /\ \E clientY \in TouchMoveYs :
        LET r == Render(app, handleTouchMove(app, clientY))
            stepped == r.lockReleaseTimers > app.lockReleaseTimers
        IN  /\ app' = r
            /\ call' = IF stepped
                       THEN [call EXCEPT !.touchSteps = @ + 1,
                                         !.touchDrag = app.touchStartY - clientY,
                                         !.strayStep = ~call.touchOpen]
                       ELSE call
            /\ UNCHANGED <<LIST_LENGTH, resolvedImages>>

\* touchend or touchcancel
TouchEnd ==
    /\ app' = Render(app, handleTouchEnd(app))
    /\ call' = [call EXCEPT !.touchOpen = FALSE]
    /\ UNCHANGED <<LIST_LENGTH, resolvedImages>>

\* a lock-release timer fires: that of the last step a wheel event started
\* (own), or that of another step
InputLockReleaseFires ==
    /\ app.lockReleaseTimers > 0
    /\ \E own \in BOOLEAN :
          /\ own => call.wheelStep = "settling"
          /\ ~own => app.lockReleaseTimers >
                        (IF call.wheelStep = "settling" THEN 1 ELSE 0)
          /\ app' = Render(app, [app EXCEPT !.lockReleaseTimers = @ - 1,
                                            !.altScrollLock = FALSE])
          /\ call' = IF own THEN [call EXCEPT !.wheelStep = "settled"] ELSE call
    /\ UNCHANGED <<LIST_LENGTH, resolvedImages>>

\* 700 ms (desktop) or 120 ms (mobile) after a wheel step of Snap mode
WheelGestureTimeoutFires ==
    /\ app.snapWheelGestureTimeout
    /\ Commit([app EXCEPT !.snapWheelGestureTimeout = FALSE,
                          !.snapWheelGestureLock = FALSE])

\* 100 ms after the last wheel event that was accumulated
WheelResetFires ==
    /\ app.desktopWheelResetTimeout
    /\ Commit([app EXCEPT !.desktopWheelResetTimeout = FALSE,
                          !.desktopWheelDelta = 0])

InputTasks ==
    \/ ScrollEvent
    \/ ~app.scrollEvent /\
          (\/ SmoothScrollFrame
           \/ StopTimeoutFires
           \/ SnapFinalizeFires
           \/ HoldExpires
           \/ AnimationFrame
           \/ InputLockReleaseFires
           \/ WheelGestureTimeoutFires
           \/ WheelResetFires)

InputNext ==
    \/ InputTasks
    \/ ~app.scrollEvent /\
          (\/ Wheel
           \/ TouchStart
           \/ TouchMove
           \/ TouchEnd
           \/ KeyArrow)

SpecInput == InputInit /\ [][InputNext]_vars

\* touch gestures and arrow keys only
TouchTasks ==
    \/ ScrollEvent
    \/ ~app.scrollEvent /\
          (\/ SmoothScrollFrame
           \/ StopTimeoutFires
           \/ SnapFinalizeFires
           \/ HoldExpires
           \/ AnimationFrame
           \/ InputLockReleaseFires)

TouchNext ==
    \/ TouchTasks
    \/ ~app.scrollEvent /\
          (\/ TouchStart
           \/ TouchMove
           \/ TouchEnd
           \/ KeyArrow)

SpecTouch == InputInit /\ [][TouchNext]_vars

\* wheel events and arrow keys, then the pending tasks only
ReleaseNext ==
    \/ InputTasks
    \/ ~app.scrollEvent /\ (Wheel \/ KeyArrow) /\ app'.inputs <= MaxLockInputs

\* A timer that is due runs: scroll events, which are dispatched first, can
\* postpone it but not for ever.
\* Snap or ImagesOnly mode on the first record of the long catalog, from
\* where a step backward is a short hold step and a step forward a long one
ReleaseInit ==
    /\ LIST_LENGTH = LongListLength
    /\ \E c \in InputCatalogs : c.n = LIST_LENGTH /\ resolvedImages = c.images
    /\ call = InputLog
    /\ \E mobile \in BOOLEAN, img \in BOOLEAN :
          app = [Arranged(TRUE, TRUE, img, 0) EXCEPT !.isMobileViewport = mobile]

SpecRelease ==
    /\ ReleaseInit /\ [][ReleaseNext]_vars
    /\ WF_vars(ScrollEvent)
    /\ SF_vars(~app.scrollEvent /\ InputLockReleaseFires)
    /\ SF_vars(~app.scrollEvent /\ WheelGestureTimeoutFires)

(***************************************************************************)
(* BackgroundFrame: the image load gate                                    *)
(***************************************************************************)
\* RESOLVED_IMAGE_URLS[i] || null; records of one postcode can resolve to one
\* file: here records 2k and 2k + 1 do
activeImageUrl(i) ==
    IF i \in resolvedImages["landscape"] THEN (i \div 2) + 1 ELSE NULL

\* the props App passes to BackgroundFrame
FrameProps(s) ==
    [imageUrl |-> activeImageUrl(s.activeIndex), imageIndex |-> s.activeIndex,
     stackMode |-> s.isImagesMode \/ s.isAltScrollMode]

\* the urls of the hidden preload stack: the images up to four steps away
\* in either direction, which are all images of the catalogs modelled here
STACK_MODE_PRELOAD_URLS(s) ==
    IF s.isImagesMode \/ s.isAltScrollMode
    THEN {activeImageUrl(i) : i \in resolvedImages["landscape"]}
    ELSE {}

\* the frame before its first effect has run.  issued, commitSeq, commitIssued,
\* commitBy and ignored are not in the code: they number the effect runs that
\* asked for an image and remember which of them committed last and which
\* completion was last discarded
NewFrame ==
    [fn |-> "BackgroundFrame",
     renderedImageUrl |-> NULL, renderedImageIndex |-> NULL,
     previousImageUrl |-> NULL, previousImageClearTimeout |-> FALSE,
     loadTicket |-> 0, loadedUrls |-> {}, preloaders |-> {},
     deps |-> <<>>,
     issued |-> 0, commitSeq |-> 0, commitIssued |-> 0, commitBy |-> "none",
     ignored |-> <<>>]

\* commit of the effect run e (its closure: nextUrl, imageIndex and the
\* renderedImageUrl of its render)
commit(f, e, by) ==
    LET swap == e.renderedImageUrl # NULL /\ e.renderedImageUrl # e.nextUrl
    IN  [f EXCEPT !.previousImageUrl = IF swap THEN e.renderedImageUrl ELSE @,
                  !.previousImageClearTimeout = IF swap THEN TRUE ELSE @,
                  !.renderedImageUrl = e.nextUrl,
                  !.renderedImageIndex = e.imageIndex,
                  !.loadedUrls = @ \cup {e.nextUrl},
                  !.commitSeq = e.seq, !.commitIssued = f.issued,
                  !.commitBy = by]

\* a variant that relies on the ticket alone
FinishTicketOnly(f, e) ==
    IF f.loadTicket # e.ticket
    THEN [f EXCEPT !.ignored = <<[seq |-> e.seq, after |-> f.commitSeq]>>]
    ELSE commit(f, e, "completion")

\* onload and onerror of the preloader of effect run e
finish(f, e) ==
    IF e.cancelled \/ f.loadTicket # e.ticket
    THEN [f EXCEPT !.ignored = <<[seq |-> e.seq, after |-> f.commitSeq]>>]
    ELSE commit(f, e, "completion")

\* one run of the load effect, after the cleanup of the run before it; it runs
\* when one of its dependencies has changed.  complete: the preloader reports
\* the image as complete at once
loadEffect(f, props, complete) ==
    LET deps == <<props.imageUrl, props.imageIndex, f.renderedImageUrl,
                  f.renderedImageIndex, props.stackMode>>
        nextUrl == IF props.stackMode
                   THEN (IF props.imageUrl # NULL THEN props.imageUrl
                         ELSE f.renderedImageUrl)
                   ELSE props.imageUrl
        cleaned == [f EXCEPT !.deps = deps,
                             !.preloaders = {[q EXCEPT !.cancelled = TRUE] : q \in @}]
    IN  IF deps = f.deps THEN f
        ELSE IF nextUrl = NULL THEN cleaned
        ELSE IF nextUrl = f.renderedImageUrl
                /\ f.renderedImageIndex = props.imageIndex THEN cleaned
        ELSE LET e == [nextUrl |-> nextUrl, imageIndex |-> props.imageIndex,
                       renderedImageUrl |-> f.renderedImageUrl,
                       seq |-> f.issued + 1, ticket |-> f.loadTicket + 1,
                       cancelled |-> FALSE]
                 asked == [cleaned EXCEPT !.issued = @ + 1]
             IN  IF nextUrl \in f.loadedUrls
                 THEN commit(asked, [e EXCEPT !.ticket = f.loadTicket], "loaded set")
                 ELSE LET waiting == [asked EXCEPT !.loadTicket = @ + 1,
                                                   !.preloaders = @ \cup {e}]
                      IN  IF complete THEN finish(waiting, e) ELSE waiting

\* a render of the frame and the effect runs it causes: a commit changes the
\* frame's state, which renders it again
RenderFrame(f, props, complete) ==
    loadEffect(loadEffect(f, props, complete), props, complete)

\* catalogs with two records of one file, a record of another file and any
\* set of records without an image
LoadCatalogs == {c \in AllCatalogs : c.n = 3}

LoadInit ==
    /\ \E c \in LoadCatalogs : LIST_LENGTH = c.n /\ resolvedImages = c.images
    /\ \E m \in ArrangedModes, active \in Indices(LIST_LENGTH) :
          /\ m.auth
          /\ app = Arranged(TRUE, m.alt, m.img, active)
    /\ \E complete \in BOOLEAN :
          call = RenderFrame(NewFrame, FrameProps(app), complete)

\* App renders with another record, or in another mode
PropsChange ==
    /\ call.issued < MaxRequests
    /\ \E m \in ArrangedModes, active \in Indices(LIST_LENGTH), complete \in BOOLEAN :
          /\ m.auth
          /\ app' = Arranged(TRUE, m.alt, m.img, active)
          /\ FrameProps(app') # FrameProps(app)
          /\ call' = RenderFrame(call, FrameProps(app'), complete)
    /\ UNCHANGED <<LIST_LENGTH, resolvedImages>>

\* a preloader's image has loaded, or failed to load
PreloaderCompletes ==
    /\ \E e \in call.preloaders :
          call' = RenderFrame(finish([call EXCEPT !.preloaders = @ \ {e}], e),
                              FrameProps(app), FALSE)
    /\ UNCHANGED <<LIST_LENGTH, resolvedImages, app>>

\* an image of the hidden preload stack has loaded
PreloadStackLoads ==
    /\ \E url \in STACK_MODE_PRELOAD_URLS(app) \ call.loadedUrls :
          call' = [call EXCEPT !.loadedUrls = @ \cup {url}]
    /\ UNCHANGED <<LIST_LENGTH, resolvedImages, app>>

\* 220 ms after a swap
PreviousImageClearFires ==
    /\ call.previousImageClearTimeout
    /\ call' = [call EXCEPT !.previousImageUrl = NULL,
                            !.previousImageClearTimeout = FALSE]
    /\ UNCHANGED <<LIST_LENGTH, resolvedImages, app>>

LoadNext ==
    \/ PropsChange
    \/ PreloaderCompletes
    \/ PreloadStackLoads
    \/ PreviousImageClearFires

SpecLoad == LoadInit /\ [][LoadNext]_vars

(***************************************************************************)
(* The password gate over page loads of one browser session.  call holds   *)
(* the session storage and the last submission.                            *)
(***************************************************************************)
\* what sessionStorage can hold under PASSWORD_STORAGE_KEY ("null": no entry)
StoredValues == {"null", "ok", "OK"}

\* a variant that takes any stored value for the flag
RestoreOnAnyValue(s, saved) ==
    IF saved # "null" THEN [s EXCEPT !.isAuthenticated = TRUE] ELSE s

\* the effect that runs once after the first render
sessionRestoreEffect(s, saved) ==
    IF saved = "ok" THEN [s EXCEPT !.isAuthenticated = TRUE] ELSE s

\* the effect that places the scroll layer once after the first render.
\* scrollRef is attached by the gallery's tree only, so scrollRef.current is
\* set in the renders that pass the gate and is null while the gate is shown.
initScrollEffect(s, initialIndex) ==
    IF s.isAuthenticated /\ LIST_LENGTH > 0
    THEN LET randomIndex == initialIndex % LIST_LENGTH
             middleCycle == (VIRTUAL_MULTIPLIER(LIST_LENGTH) \div 2)
                               * LIST_PIXEL_HEIGHT(LIST_LENGTH)
         IN  [s EXCEPT !.scrollTop = middleCycle + randomIndex * BASE_STEP_HEIGHT,
                       !.scrollEvent = TRUE,
                       !.activeIndex = randomIndex]
    ELSE s

\* the component as useState and useRef initialise it, after `inputs` inputs
\* of the browser session
Mount(initialIndex, mobile, inputs) ==
    [RestingApp EXCEPT !.isAuthenticated = FALSE, !.sessionOk = FALSE,
                       !.activeIndex = initialIndex, !.isMobileViewport = mobile,
                       !.inputs = inputs]

\* the long catalog: its steps are animated one way and held the other
GateCatalogs == {c \in Catalogs : c.n = LongListLength}

GateInit ==
    /\ \E c \in GateCatalogs :
          /\ LIST_LENGTH = c.n
          /\ resolvedImages = c.images
    /\ \E initialIndex \in ProbeIndices(LIST_LENGTH) :
          app = Mount(initialIndex, FALSE, 0)
    /\ \E stored \in StoredValues :
          call = [fn |-> "mount", stored |-> stored, restored |-> FALSE,
                  passwordInput |-> ""]

\* the effects of the first render, in the order of their declaration; the
\* state of that render holds initialIndexRef.current as activeIndex
SessionRestore ==
    /\ ~call.restored
    /\ app' = Render(app, sessionRestoreEffect(initScrollEffect(app, app.activeIndex),
                                               call.stored))
    /\ call' = [call EXCEPT !.fn = "restore", !.restored = TRUE]
    /\ UNCHANGED <<LIST_LENGTH, resolvedImages>>

\* the form of the gate is submitted; setItem runs when handleUnlock says so
GateSubmit ==
    /\ call.restored /\ ~app.isAuthenticated
    /\ \E passwordInput \in Passwords :
        LET s == handleUnlock(app, passwordInput)
        IN  /\ app' = Render(app, s)
            /\ call' = [call EXCEPT !.fn = "handleUnlock",
                                    !.stored = IF s.sessionOk THEN "ok" ELSE @,
                                    !.passwordInput = passwordInput]
            /\ UNCHANGED <<LIST_LENGTH, resolvedImages>>

\* the page is loaded again in the same browser session
Reload ==
    /\ call.restored
    /\ \E initialIndex \in ProbeIndices(LIST_LENGTH) :
          app' = Mount(initialIndex, app.isMobileViewport, app.inputs)
    /\ call' = [call EXCEPT !.fn = "mount", !.restored = FALSE]
    /\ UNCHANGED <<LIST_LENGTH, resolvedImages>>

\* the handlers and tasks of the gallery, the gate's form aside
GateNavigation ==
    \/ ScrollEvent
    \/ ~app.scrollEvent /\ (KeyDigit \/ InputTimeoutFires)
    \/ ~app.scrollEvent /\ app.inputBuffer = <<>> /\
          (UserScroll \/ SmoothScrollFrame \/ StopTimeoutFires \/ SnapFinalizeFires
           \/ LockReleaseFires \/ HoldExpires \/ AnimationFrame \/ SidebarDotClick
           \/ KeyArrow \/ SetScrollMode \/ ToggleImagesMode \/ Resize)

GateNext ==
    \/ SessionRestore
    \/ GateSubmit
    \/ Reload
    \/ call.restored /\ GateNavigation /\ app'.inputs <= MaxGateInputs

SpecGate == GateInit /\ [][GateNext]_vars

(***************************************************************************)
(* The hold window of a Snap step.  A timer that is due runs as a task of  *)
(* its own: it can run before the frame that dispatches a pending scroll   *)
(* event.                                                                  *)
(***************************************************************************)
\* the gallery in FreeScroll or Snap mode, at rest
HoldInit ==
    /\ \E c \in InputCatalogs :
          /\ LIST_LENGTH = c.n
          /\ resolvedImages = c.images
    /\ call = NoCall
    /\ \E initialIndex \in ProbeIndices(LIST_LENGTH), mobile \in BOOLEAN,
          alt \in BOOLEAN :
          app = [Arranged(TRUE, alt, FALSE, initialIndex) EXCEPT
                    !.isMobileViewport = mobile]

HoldTimers ==
    \/ StopTimeoutFires
    \/ SnapFinalizeFires
    \/ LockReleaseFires
    \/ HoldExpires

HoldNext ==
    \/ ScrollEvent
    \/ HoldTimers
    \/ ~app.scrollEvent /\ (UserScroll \/ SetScrollMode \/ KeyArrow
                              \/ AnimationFrame \/ SmoothScrollFrame)

SpecHold == HoldInit /\ [][HoldNext]_vars

(***************************************************************************)
(* One input in Snap mode from a landed image, then no further input       *)
(***************************************************************************)
\* Snap mode at rest on an image: the state a settled step leaves, in the
\* middle cycle
Landed(i, mobile) ==
    [RestingApp EXCEPT
        !.isMobileViewport = mobile, !.activeIndex = i, !.isLanded = TRUE,
        !.scrollTop = (VIRTUAL_MULTIPLIER(LIST_LENGTH) \div 2)
                         * LIST_PIXEL_HEIGHT(LIST_LENGTH) + i * BASE_STEP_HEIGHT]

RestInit ==
    /\ \E c \in InputCatalogs :
          /\ c.images["landscape"] # {}
          /\ LIST_LENGTH = c.n
          /\ resolvedImages = c.images
    /\ call = NoCall
    /\ \E i \in resolvedImages["landscape"], mobile \in BOOLEAN :
          app = Landed(i, mobile)

\* a sidebar dot, a typed postcode or an arrow key: one input in all (typing
\* a postcode counts once, at its first digit)
RestInputs ==
    \/ KeyDigit
    \/ app.inputBuffer = <<>> /\ (SidebarDotClick \/ KeyArrow)

RestNext ==
    \/ ScrollEvent
    \/ ~app.scrollEvent /\ InputTimeoutFires
    \/ ~app.scrollEvent /\ app.inputBuffer = <<>> /\ Tasks
    \/ ~app.scrollEvent /\ RestInputs /\ app'.inputs <= 1

SpecRest == RestInit /\ [][RestNext]_vars

(***************************************************************************)
(* The image index and the postcode catalog, built from file names and     *)
(* text rows.  A string is the sequence of its characters.                 *)
(***************************************************************************)
UpperCase ==
    <<"A", "B", "C", "D", "E", "F", "G", "H", "I", "J", "K", "L", "M",
      "N", "O", "P", "Q", "R", "S", "T", "U", "V", "W", "X", "Y", "Z">>

LowerCase ==
    <<"a", "b", "c", "d", "e", "f", "g", "h", "i", "j", "k", "l", "m",
      "n", "o", "p", "q", "r", "s", "t", "u", "v", "w", "x", "y", "z">>

DigitChars == {"0", "1", "2", "3", "4", "5", "6", "7", "8", "9"}

\* U+0301, a character of the range the source strips after decomposition
CombiningAcute == "U+0301"

\* String.prototype.normalize('NFKD') of one character: e-acute (U+00E9)
\* decomposes, the other characters of the model are their own decomposition
NFKD(c) == IF c = "U+00E9" THEN <<"e", CombiningAcute>> ELSE <<c>>

toLowerCase(c) ==
    IF \E i \in 1..26 : UpperCase[i] = c
    THEN LowerCase[CHOOSE i \in 1..26 : UpperCase[i] = c]
    ELSE c

IsAlnum(c) == c \in DigitChars \/ (\E i \in 1..26 : LowerCase[i] = c)

RECURSIVE Decompose(_)
Decompose(value) ==
    IF value = <<>> THEN <<>> ELSE NFKD(Head(value)) \o Decompose(Tail(value))

\* replace(/[^a-z0-9]+/g, '_'): one underscore for every run
RECURSIVE CollapseRuns(_, _)
CollapseRuns(value, inRun) ==
    IF value = <<>> THEN <<>>
    ELSE IF IsAlnum(Head(value)) THEN <<Head(value)>> \o CollapseRuns(Tail(value), FALSE)
    ELSE IF inRun THEN CollapseRuns(Tail(value), TRUE)
    ELSE <<"_">> \o CollapseRuns(Tail(value), TRUE)

\* replace(/^_+|_+$/g, '')
RECURSIVE TrimUnderscores(_)
TrimUnderscores(value) ==
    IF value = <<>> THEN <<>>
    ELSE IF Head(value) = "_" THEN TrimUnderscores(Tail(value))
    ELSE IF value[Len(value)] = "_" THEN TrimUnderscores(SubSeq(value, 1, Len(value) - 1))
    ELSE value

normalizeForMatch(value) ==
    LET stripped == SelectSeq(Decompose(value), LAMBDA c : c # CombiningAcute)
        lower == [i \in 1..Len(stripped) |-> toLowerCase(stripped[i])]
    IN  TrimUnderscores(CollapseRuns(lower, FALSE))

startsWith(value, token) ==
    Len(token) <= Len(value) /\ SubSeq(value, 1, Len(token)) = token

endsWith(value, token) ==
    Len(token) <= Len(value)
    /\ SubSeq(value, Len(value) - Len(token) + 1, Len(value)) = token

includes(value, token) ==
    \E i \in 0..(Len(value) - Len(token)) : SubSeq(value, i + 1, i + Len(token)) = token

RECURSIVE padStart(_, _, _)
padStart(value, targetLength, pad) ==
    IF Len(value) >= targetLength THEN value
    ELSE padStart(<<pad>> \o value, targetLength, pad)

\* fileName.replace(/\.[^.]+$/, ''): the extension after the last dot
baseNameOf(fileName) ==
    LET dots == {i \in 1..(Len(fileName) - 1) : fileName[i] = "."
                    /\ \A j \in (i + 1)..Len(fileName) : fileName[j] # "."}
    IN  IF dots = {} THEN fileName
        ELSE SubSeq(fileName, 1, (CHOOSE i \in dots : TRUE) - 1)

\* baseName.match(/^(\d{3,4})/): the leading three or four digits, the empty
\* sequence (no match) when the name starts with fewer than three
postcodeMatch(baseName) ==
    LET run == CHOOSE k \in 0..Len(baseName) :
                  /\ \A j \in 1..k : baseName[j] \in DigitChars
                  /\ k < Len(baseName) => baseName[k + 1] \notin DigitChars
    IN  IF run < 3 THEN <<>> ELSE SubSeq(baseName, 1, Min(run, 4))

\* the entries one module of import.meta.glob contributes: none when the file
\* name has no leading postcode
indexedImage(module) ==
    LET baseName == baseNameOf(module.fileName)
        match == postcodeMatch(baseName)
    IN  IF match = <<>> THEN <<>>
        ELSE <<[url |-> module.url,
                postcode |-> padStart(match, 4, "0"),
                orientation |-> IF module.dir = "portrait" THEN "portrait"
                                ELSE "landscape",
                normalizedName |-> normalizeForMatch(baseName)]>>

RECURSIVE IMAGE_INDEX(_)
IMAGE_INDEX(modules) ==
    IF modules = <<>> THEN <<>>
    ELSE indexedImage(Head(modules)) \o IMAGE_INDEX(Tail(modules))

\* the text of an orientation in a template string
OrientationText(orientation) ==
    IF orientation = "portrait" THEN <<"p", "o", "r", "t", "r", "a", "i", "t">>
    ELSE <<"l", "a", "n", "d", "s", "c", "a", "p", "e">>

\* a variant that falls back to the other orientation
AnyOrientationFallback(index, postcode, orientation) ==
    LET exact == SelectSeq(index, LAMBDA entry :
                    entry.postcode = postcode /\ entry.orientation = orientation)
    IN  IF exact # <<>> THEN exact
        ELSE SelectSeq(index, LAMBDA entry : entry.postcode = postcode)

exactOrientation(index, postcode, orientation) ==
    SelectSeq(index, LAMBDA entry :
        entry.postcode = postcode /\ entry.orientation = orientation)

\* the candidate tokens, most specific first
expectedTokens(postcode, suburbToken, orientation) ==
    <<postcode \o <<"_">> \o suburbToken \o <<"_">> \o OrientationText(orientation),
      postcode \o <<"_">> \o suburbToken,
      postcode \o <<"_">> \o OrientationText(orientation),
      postcode>>

\* the inner loop: the score of an entry after the tokens i, i + 1, ...
RECURSIVE scoreLoop(_, _, _, _, _, _)
scoreLoop(entry, expected, suburbToken, orientation, i, score) ==
    IF i >= Len(expected) THEN score
    ELSE LET token == expected[i + 1]
             next ==
                IF token = <<>> \/ endsWith(token, <<"_">>) THEN score
                ELSE IF entry.normalizedName = token THEN Max(score, 100 - i * 10)
                ELSE IF startsWith(entry.normalizedName, token) THEN Max(score, 80 - i * 8)
                ELSE IF suburbToken # <<>> /\ includes(entry.normalizedName, suburbToken)
                THEN Max(score, 45 - i * 2)
                ELSE score
         IN  scoreLoop(entry, expected, suburbToken, orientation, i + 1, next)

\* a variant that keeps the last entry on ties
RECURSIVE BestLoopLastWins(_, _, _, _, _, _)
BestLoopLastWins(pool, expected, suburbToken, orientation, best, bestScore) ==
    IF pool = <<>> THEN best
    ELSE LET entry == Head(pool)
             score == scoreLoop(entry, expected, suburbToken, orientation, 0,
                                IF entry.orientation = orientation THEN 5 ELSE 0)
         IN  IF score >= bestScore
             THEN BestLoopLastWins(Tail(pool), expected, suburbToken, orientation,
                                   entry, score)
             ELSE BestLoopLastWins(Tail(pool), expected, suburbToken, orientation,
                                   best, bestScore)

\* the outer loop: the best entry after the entries of pool
RECURSIVE bestLoop(_, _, _, _, _, _)
bestLoop(pool, expected, suburbToken, orientation, best, bestScore) ==
    IF pool = <<>> THEN best
    ELSE LET entry == Head(pool)
             score == scoreLoop(entry, expected, suburbToken, orientation, 0,
                                IF entry.orientation = orientation THEN 5 ELSE 0)
         IN  IF score > bestScore
             THEN bestLoop(Tail(pool), expected, suburbToken, orientation, entry, score)
             ELSE bestLoop(Tail(pool), expected, suburbToken, orientation,
                           best, bestScore)

\* resolvePostcodeImage over the index; NULL for null
resolvePostcodeImage(index, postcode, suburb, orientation) ==
    LET suburbToken == normalizeForMatch(suburb)
        pool == exactOrientation(index, postcode, orientation)
    IN  IF Len(pool) = 0 THEN NULL
        ELSE bestLoop(pool, expectedTokens(postcode, suburbToken, orientation),
                      suburbToken, orientation, pool[1], -1).url

\* String.prototype.trim
RECURSIVE trim(_)
trim(value) ==
    IF value = <<>> THEN <<>>
    ELSE IF Head(value) = " " THEN trim(Tail(value))
    ELSE IF value[Len(value)] = " " THEN trim(SubSeq(value, 1, Len(value) - 1))
    ELSE value

\* String.prototype.split(',')
RECURSIVE split(_, _)
split(value, field) ==
    IF value = <<>> THEN <<field>>
    ELSE IF Head(value) = "," THEN <<field>> \o split(Tail(value), <<>>)
    ELSE split(Tail(value), Append(field, Head(value)))

\* replace(/^"|"$/g, ''): one quote at the start and one at the end
stripQuotes(value) ==
    LET first == IF value # <<>> /\ Head(value) = "\"" THEN Tail(value) ELSE value
    IN  IF first # <<>> /\ first[Len(first)] = "\""
        THEN SubSeq(first, 1, Len(first) - 1)
        ELSE first

HeaderWord == <<"p", "o", "s", "t", "c", "o", "d", "e">>

\* the records one line of RAW_POSTCODE_CSV contributes
postcodeRecord(line) ==
    LET trimmedLine == trim(line)
        lowered == [i \in 1..Len(trimmedLine) |-> toLowerCase(trimmedLine[i])]
        raw == split(trimmedLine, <<>>)
        parts == [i \in 1..Len(raw) |-> stripQuotes(trim(raw[i]))]
    IN  IF trimmedLine = <<>> \/ startsWith(lowered, HeaderWord) THEN <<>>
        ELSE IF Len(parts) >= 3
        THEN <<[postcode |-> padStart(parts[1], 4, "0"),
                suburb |-> parts[2], state |-> parts[3]]>>
        ELSE <<>>

\* the POSTCODES memo over the lines of the text
RECURSIVE PostcodeData(_)
PostcodeData(lines) ==
    IF lines = <<>> THEN <<>>
    ELSE postcodeRecord(Head(lines)) \o PostcodeData(Tail(lines))

\* the bundled files: directory and file name, the url being the position
BundledFiles ==
    <<[dir |-> "landscape", fileName |-> <<"2", "0", "0", "0", "_", "a", "b", "_",
          "l", "a", "n", "d", "s", "c", "a", "p", "e", ".", "j", "p", "g">>],
      [dir |-> "landscape", fileName |-> <<"2", "0", "0", "0", "_", "a", "b", ".", "j", "p", "g">>],
      [dir |-> "landscape", fileName |-> <<"2", "0", "0", "0", ".", "p", "n", "g">>],
      [dir |-> "landscape", fileName |-> <<"2", "0", "0", "0", "-", "A", "b", " ", "-", "x", ".", "J", "P", "G">>],
      [dir |-> "portrait", fileName |-> <<"2", "0", "0", "0", "_", "a", "b", ".", "j", "p", "g">>],
      [dir |-> "landscape", fileName |-> <<"8", "0", "0", "_", "a", "b", ".", "j", "p", "g">>],
      [dir |-> "landscape", fileName |-> <<"0", "8", "0", "0", "x", ".", "j", "p", "g">>],
      [dir |-> "landscape", fileName |-> <<"0", "8", "0", "0", "_", "c", ".", "v", "2", ".", "j", "p", "g">>],
      [dir |-> "landscape", fileName |-> <<"a", "b", "_", "2", "0", "0", "0", ".", "j", "p", "g">>],
      [dir |-> "portrait", fileName |-> <<"2", "0", "0", "0", "1", ".", "j", "p", "g">>],
      [dir |-> "landscape", fileName |-> <<"2", "0", "0", "0", " ", "c", "a", "f", "U+00E9", ".", "j", "p", "g">>],
      [dir |-> "landscape", fileName |-> <<"2", "0", ".", "j", "p", "g">>]>>

Modules == {[url |-> i, dir |-> BundledFiles[i].dir, fileName |-> BundledFiles[i].fileName] :
               i \in 1..Len(BundledFiles)}

\* import.meta.glob over an asset set of up to MaxIndexFiles files
ModuleLists ==
    UNION {{ms \in [1..k -> Modules] : \A i, j \in 1..k : i # j => ms[i] # ms[j]} :
              k \in 0..MaxIndexFiles}

\* rows of the postcode text
CatalogRows ==
    {<<"2", "0", "0", "0", ",", "A", "b", ",", "N", "S", "W">>,
     <<"8", "0", "0", ",", "A", "b", ",", "N", "T">>,
     <<"P", "o", "s", "t", "c", "o", "d", "e", ",", "s", "u", "b", "u", "r", "b", ",", "s", "t", "a", "t", "e">>,
     <<" ", "\"", "2", "0", "0", "0", "\"", " ", ",", " ", "\"", "a", " ", "b", "\"", ",", "N", "S", "W", " ">>,
     <<"2", "0", "0", "0", ",", "A", "b">>,
     <<" ">>,
     <<"2", "0", "0", "0", ",", ",", "N", "S", "W">>,
     <<"2", "0", "0", "0", "1", ",", "A", "b", ",", "N", "S", "W">>,
     <<"2", "0", "0", "0", ",", "C", "a", "f", "U+00E9", ",", "N", "S", "W", ",", "x">>}

CatalogTexts == UNION {[1..k -> CatalogRows] : k \in 0..MaxRows}

IndexInit ==
    /\ LIST_LENGTH = 1
    /\ resolvedImages = [o \in Orientations |-> {}]
    /\ app = RestingApp
    /\ \/ \E modules \in ModuleLists :
            call = [fn |-> "IMAGE_INDEX", modules |-> modules,
                    index |-> IMAGE_INDEX(modules)]
       \/ \E lines \in CatalogTexts : call = [fn |-> "RAW_POSTCODE_CSV", lines |-> lines]

\* the POSTCODES memo runs
ParsePostcodes ==
    /\ call.fn = "RAW_POSTCODE_CSV"
    /\ call' = [fn |-> "POSTCODES", lines |-> call.lines, data |-> PostcodeData(call.lines)]
    /\ UNCHANGED <<LIST_LENGTH, resolvedImages, app>>

\* RESOLVED_IMAGE_URLS resolves a record of the catalog against the index
ApplyResolvePostcodeImage ==
    /\ call.fn = "IMAGE_INDEX"
    /\ \E row \in CatalogRows, orientation \in Orientations :
        LET data == PostcodeData(<<row>>)
        IN  /\ data # <<>>
            /\ call' = [fn |-> "resolvePostcodeImage", index |-> call.index,
                        postcode |-> data[1].postcode, suburb |-> data[1].suburb,
                        orientation |-> orientation,
                        url |-> resolvePostcodeImage(call.index, data[1].postcode,
                                                     data[1].suburb, orientation)]
            /\ UNCHANGED <<LIST_LENGTH, resolvedImages, app>>

IndexNext ==
    \/ ParsePostcodes
    \/ ApplyResolvePostcodeImage

SpecIndex == IndexInit /\ [][IndexNext]_vars

(***************************************************************************)
(* The virtual layout of catalogs of many sizes                            *)
(***************************************************************************)
\* the first catalog size whose MIN_VIRTUAL_CYCLES cycles exceed the budget
CrossoverLength ==
    (MAX_VIRTUAL_SCROLL_PX \div (MIN_VIRTUAL_CYCLES * BASE_STEP_HEIGHT)) + 1

SizedLengths ==
    (1..MaxSizedLength)
    \cup ((CrossoverLength - SizeSpread)..(CrossoverLength + SizeSpread))

SizingInit ==
    /\ LIST_LENGTH \in SizedLengths
    /\ resolvedImages = [o \in Orientations |-> {}]
    /\ app = RestingApp
    /\ call = NoCall

\* the render computes LIST_PIXEL_HEIGHT, VIRTUAL_MULTIPLIER, TOTAL_VIRTUAL_HEIGHT
ComputeLayout ==
    /\ call = NoCall
    /\ call' = [fn |-> "layout",
                listHeight |-> LIST_PIXEL_HEIGHT(LIST_LENGTH),
                multiplier |-> VIRTUAL_MULTIPLIER(LIST_LENGTH),
                totalHeight |-> TOTAL_VIRTUAL_HEIGHT(LIST_LENGTH)]
    /\ UNCHANGED <<LIST_LENGTH, resolvedImages, app>>

SpecSizing == SizingInit /\ [][ComputeLayout]_vars

(***************************************************************************)
(* Properties                                                              *)
(***************************************************************************)
N == LIST_LENGTH

ListHeight == N * BASE_STEP_HEIGHT

\* the index shown at an offset: floor((top mod listHeight) / step), with the
\* non-negative remainder
IndexAt(top) == (top % ListHeight) \div BASE_STEP_HEIGHT

\* within 1.5 list heights of either end of the virtual range
NearBoundary(top) ==
    \/ 2 * top < 3 * ListHeight
    \/ 2 * top > 2 * VIRTUAL_MULTIPLIER(N) * ListHeight - 3 * ListHeight

CircularDistance(a, b) ==
    LET d == IF a < b THEN b - a ELSE a - b
    IN  IF d < N - d THEN d ELSE N - d

\* C1: in every reachable state of a non-empty catalog of N records,
\* activeIndex is an integer in [0, N), whatever scroll events, scrollToIndex
\* calls, directional steps, postcode jumps, timers, mode toggles and
\* orientation changes led there.
ActiveIndexInRange ==
    N > 0 => app.activeIndex \in 0..(N - 1)

\* a scroll event was handled with the last record of the catalog under the
\* scroll position
ActiveIndexInRangeReached ==
    /\ app.isAuthenticated /\ N > 1
    /\ app.stopTimeout # <<>>
    /\ IndexAt(app.scrollTop) = N - 1
    /\ app.activeIndex = N - 1

\* C2 (as claimed): scrollToIndex(i) followed by reading activeIndex yields
\* i mod N, for every integer i and in every navigation mode.
ScrollToIndexYieldsIndexInEveryMode ==
    call.fn = "scrollToIndex" => app.activeIndex = call.targetIndex % N

\* C2 (amended): with the scroll layer mounted, scrollToIndex(i) followed by
\* reading activeIndex yields i mod N in FreeScroll and SnapToImage modes, and
\* in ImagesOnly mode when i mod N is image-bearing or no record is; in
\* ImagesOnly mode otherwise it yields the image-bearing index nearest to
\* i mod N.  Behind the password gate (no scroll layer) activeIndex keeps its
\* value.
ScrollToIndexYieldsIndexOrNearestImage ==
    call.fn = "scrollToIndex" =>
        LET i == call.targetIndex % N
        IN  IF ~app.isAuthenticated THEN app.activeIndex = call.activeIndex
            ELSE IF ~app.isImagesMode \/ i \in Images \/ Images = {}
            THEN app.activeIndex = i
            ELSE /\ app.activeIndex \in Images
                 /\ \A j \in Images :
                        CircularDistance(app.activeIndex, i) <= CircularDistance(j, i)

\* scrollToIndex was called in ImagesOnly mode with a negative index whose
\* remainder is not image-bearing
ScrollToIndexCoerced ==
    /\ call.fn = "scrollToIndex" /\ call.targetIndex < 0
    /\ app.isAuthenticated /\ app.isImagesMode
    /\ (call.targetIndex % N) \notin Images
    /\ app.activeIndex \in Images

\* C3: when handleScroll sees a scrollTop within 1.5 list heights of either
\* end of the virtual range, it sets scrollTop to
\* floor(multiplier/2)*listHeight + (scrollTop mod listHeight); the index
\* derived from the offset is the same before and after, and the new
\* scrollTop is in neither boundary zone.
RecenteringPreservesIndex ==
    (call.fn = "handleScroll" /\ NearBoundary(call.scrollTop)) =>
        /\ app.scrollTop = (VIRTUAL_MULTIPLIER(N) \div 2) * ListHeight
                             + (call.scrollTop % ListHeight)
        /\ IndexAt(app.scrollTop) = IndexAt(call.scrollTop)
        /\ ~NearBoundary(app.scrollTop)

\* a scroll event in the upper boundary zone, off the start of a cycle, was
\* handled
RecenteringHappened ==
    /\ call.fn = "handleScroll"
    /\ 2 * call.scrollTop > 2 * VIRTUAL_MULTIPLIER(N) * ListHeight - 3 * ListHeight
    /\ call.scrollTop % ListHeight # 0
    /\ app.scrollTop # call.scrollTop

\* C4: after handleScroll handles a scroll event outside ImagesOnly mode,
\* activeIndex = floor((scrollTop mod listHeight) / step) with the
\* non-negative remainder, for every scrollTop, negative and boundary values
\* included.
HandleScrollSetsRawIndex ==
    (call.fn = "handleScroll" /\ ~app.isImagesMode) =>
        /\ app.activeIndex = IndexAt(app.scrollTop)
        /\ app.activeIndex = IndexAt(call.scrollTop)

\* a scroll event at a negative offset was handled outside ImagesOnly mode
HandleScrollNegativeOffset ==
    /\ call.fn = "handleScroll" /\ ~app.isImagesMode
    /\ call.scrollTop < 0 /\ N > 1
    /\ app.activeIndex = N - 1

\* C5: for every current offset c >= 0, target index t in [0, N) and
\* direction, the target offset T of a directional seek satisfies
\* c < T <= c + listHeight (forward) or c - listHeight <= T < c (backward),
\* and floor((T mod listHeight) / step) = t.
DirectionalTargetIsMonotonic ==
    call.fn = "getDirectionalTargetTop" =>
        /\ call.direction = 1 =>
              call.currentTop < call.result /\ call.result <= call.currentTop + ListHeight
        /\ call.direction = -1 =>
              call.currentTop - ListHeight <= call.result /\ call.result < call.currentTop
        /\ IndexAt(call.result) = call.targetIndex

\* a forward seek crossed into the next cycle
DirectionalTargetCrossedCycle ==
    /\ call.fn = "getDirectionalTargetTop" /\ call.direction = 1
    /\ call.currentTop % ListHeight # 0
    /\ call.result \div ListHeight = call.currentTop \div ListHeight + 1

\* C6 (as claimed): the virtual multiplier is the smallest integer that is
\* >= 120 and makes multiplier*listHeight >= 8,000,000; totalHeight is always
\* at least 8,000,000.
MultiplierReachesBudget ==
    call.fn = "layout" =>
        /\ call.multiplier >= MIN_VIRTUAL_CYCLES
        /\ call.multiplier * call.listHeight >= MAX_VIRTUAL_SCROLL_PX
        /\ \/ call.multiplier = MIN_VIRTUAL_CYCLES
           \/ (call.multiplier - 1) * call.listHeight < MAX_VIRTUAL_SCROLL_PX
        /\ call.totalHeight >= MAX_VIRTUAL_SCROLL_PX

\* C6 (amended): the virtual multiplier is the largest integer with
\* multiplier*listHeight <= 8,000,000, but never less than 120; totalHeight =
\* multiplier*N*15 is at most 8,000,000 unless the minimum of 120 cycles
\* forces it higher.
MultiplierStaysWithinBudget ==
    call.fn = "layout" =>
        /\ call.listHeight = N * BASE_STEP_HEIGHT
        /\ call.multiplier >= MIN_VIRTUAL_CYCLES
        /\ (call.multiplier + 1) * call.listHeight > MAX_VIRTUAL_SCROLL_PX
        /\ call.multiplier > MIN_VIRTUAL_CYCLES =>
              call.multiplier * call.listHeight <= MAX_VIRTUAL_SCROLL_PX
        /\ call.totalHeight = call.multiplier * call.listHeight

\* a catalog was laid out on more than 120 cycles, below the budget
LayoutBelowBudget ==
    /\ call.fn = "layout"
    /\ call.multiplier > MIN_VIRTUAL_CYCLES
    /\ call.totalHeight < MAX_VIRTUAL_SCROLL_PX

\* C7: with at least one image-bearing index, findNextImageIndex forward
\* returns the smallest image-bearing index > i mod N, or the first
\* image-bearing index if there is none; backward returns the largest
\* image-bearing index < i mod N, or the last one if there is none; with no
\* image-bearing index it returns none.
FindNextIsNextInDirection ==
    call.fn = "findNextImageIndex" =>
        LET i == call.fromIndex % N
            r == call.result
            greater == {j \in Images : j > i}
            smaller == {j \in Images : j < i}
        IN  IF Images = {} THEN r = NULL
            ELSE /\ r \in Images
                 /\ call.direction = 1 =>
                       IF greater # {} THEN r \in greater /\ \A j \in greater : r <= j
                       ELSE \A j \in Images : r <= j
                 /\ call.direction = -1 =>
                       IF smaller # {} THEN r \in smaller /\ \A j \in smaller : r >= j
                       ELSE \A j \in Images : r >= j

\* a backward step wrapped to the last image-bearing index
FindNextWrappedBackward ==
    /\ call.fn = "findNextImageIndex" /\ call.direction = -1
    /\ Cardinality(Images) >= 2
    /\ call.result > call.fromIndex % N

\* C8: for every image-bearing index i and every set of image-bearing
\* indices, a step forward from i followed by a step backward returns i.
RoundTripReturnsToImage ==
    (call.fn = "forwardThenBackward" /\ call.fromIndex \in Images) =>
        call.result = call.fromIndex

\* a round trip from the last of several image-bearing indices
RoundTripThroughWrap ==
    /\ call.fn = "forwardThenBackward" /\ call.fromIndex \in Images
    /\ Cardinality(Images) >= 2
    /\ call.forward < call.fromIndex

\* i (an index in [0, N)) is not image-bearing and both its circular
\* neighbours are
BetweenTwoImages(i) ==
    /\ i \in 0..(N - 1) /\ i \notin Images
    /\ ((i + N - 1) % N) \in Images
    /\ ((i + 1) % N) \in Images

\* C9 (as claimed): for every i in [0, N) that is not image-bearing and whose
\* two circular neighbours are, a step forward followed by a step backward
\* gives findNearestImageIndex(i), i = 0 and i = N-1 included.
RoundTripIsNearestAnywhere ==
    (call.fn = "forwardThenBackward" /\ BetweenTwoImages(call.fromIndex)) =>
        call.result = findNearestImageIndex(Images, N, call.fromIndex)

\* C9 (amended): for every i with 0 < i < N-1 (or N = 2) that is not
\* image-bearing and whose two neighbours are, a step forward followed by a
\* step backward gives findNearestImageIndex(i).
RoundTripIsNearestInside ==
    (/\ call.fn = "forwardThenBackward" /\ BetweenTwoImages(call.fromIndex)
     /\ (N = 2 \/ (0 < call.fromIndex /\ call.fromIndex < N - 1))) =>
        call.result = findNearestImageIndex(Images, N, call.fromIndex)

\* a round trip from an inner index between two image-bearing ones
RoundTripBetweenImages ==
    /\ call.fn = "forwardThenBackward" /\ BetweenTwoImages(call.fromIndex)
    /\ 0 < call.fromIndex /\ call.fromIndex < N - 1
    /\ call.result = call.fromIndex - 1

\* C10: findNearestImageIndex(i) returns an image-bearing index at minimal
\* circular distance min(|a-b|, N-|a-b|) from i mod N, the first in ascending
\* order among those at the minimum; it returns none iff no index is
\* image-bearing.
FindNearestIsFirstClosest ==
    call.fn = "findNearestImageIndex" =>
        LET i == call.fromIndex % N
            r == call.result
        IN  IF Images = {} THEN r = NULL
            ELSE /\ r \in Images
                 /\ \A j \in Images :
                        /\ CircularDistance(r, i) <= CircularDistance(j, i)
                        /\ CircularDistance(r, i) = CircularDistance(j, i) => r <= j

\* two image-bearing indices were equally near and the first was returned
FindNearestBrokeTie ==
    /\ call.fn = "findNearestImageIndex"
    /\ call.result # NULL
    /\ \E j \in Images :
          /\ j > call.result
          /\ CircularDistance(j, call.fromIndex % N)
               = CircularDistance(call.result, call.fromIndex % N)

\* C11: the circular distance used to select the nearest image is symmetric
\* and bounded: for all a, b in [0, N), distance(a, b) = distance(b, a) and
\* distance(a, b) <= floor(N/2).
CircularDistanceSymmetricBounded ==
    call.fn = "circularDistance" =>
        /\ call.ab = call.ba
        /\ 0 <= call.ab /\ call.ab <= N \div 2

\* the distance between the two ends of a catalog, measured across the wrap
CircularDistanceAcrossWrap ==
    /\ call.fn = "circularDistance" /\ N >= 3
    /\ call.a = 0 /\ call.b = N - 1
    /\ call.ab = 1

\* the elements of a sequence
Range(seq) == {seq[k] : k \in 1..Len(seq)}

\* C12: with K >= 1 image-bearing indices, K successive forward steps (and K
\* successive backward steps) of findNextImageIndex from an image-bearing
\* index visit every image-bearing index exactly once and return to the
\* start; the two directions traverse the same cycle in opposite orders.
StepsFormOneCycle ==
    call.fn = "successiveSteps" =>
        LET K == Cardinality(Images)
        IN  /\ Len(call.forward) = K /\ Len(call.backward) = K
            /\ Range(call.forward) = Images /\ Range(call.backward) = Images
            /\ call.forward[K] = call.start /\ call.backward[K] = call.start
            /\ \A k \in 1..(K - 1) : call.backward[k] = call.forward[K - k]

\* a cycle through three or more image-bearing indices, begun in the middle
StepsAroundThreeImages ==
    /\ call.fn = "successiveSteps"
    /\ Cardinality(Images) >= 3
    /\ \E i \in Images : i < call.start
    /\ \E i \in Images : i > call.start

\* C13: in ImagesOnly mode isLanded is always true: no scroll event,
\* directional step, postcode jump, sidebar click or timer firing, a
\* scroll-stop timer armed before the mode was switched on included, leaves
\* isLanded false while the mode is on.  (Stated for the orientations with an
\* image-bearing index, where entering the mode sets isLanded.)
LandedInImagesOnly ==
    (app.isImagesMode /\ Images # {}) => app.isLanded

\* C14: in ImagesOnly mode with at least one image-bearing index, after the
\* coercion effect has run activeIndex is image-bearing for the current
\* orientation, whatever scroll event, postcode jump or orientation change
\* came before.
ActiveIndexImageBearingInImagesOnly ==
    (app.isImagesMode /\ Images # {}) => app.activeIndex \in Images

\* in ImagesOnly mode a scroll event was handled at the offset of a record
\* without an image
CoercedAwayFromScrollPosition ==
    /\ app.isImagesMode /\ Images # {}
    /\ app.stopTimeout # <<>> /\ app.stopTimeout[1].isImagesMode
    /\ IndexAt(app.scrollTop) \notin Images
    /\ app.activeIndex \in Images

\* FreeScroll mode: Snap off and ImagesOnly off
InFreeScroll(s) == ~s.isAltScrollMode /\ ~s.isImagesMode

\* a step in which the pending scroll-stop timer fired
StopTimerFired == app.stopTimeout # <<>> /\ app'.stopTimeout = <<>>

\* C15: in FreeScroll mode isLanded goes from false to true only when the
\* scroll-stop timer fires, and only if the index the scroll settled on is
\* image-bearing for the current orientation; a scroll event that changes
\* activeIndex sets isLanded false, and settling on an index without an image
\* leaves it false.
FreeScrollLandsOnlyOnStoppedImage ==
    [][(InFreeScroll(app) /\ InFreeScroll(app')) =>
          /\ (~app.isLanded /\ app'.isLanded) =>
                /\ StopTimerFired
                /\ app'.activeIndex \in IMAGE_ENTRY_INDEX_SET(app'.orientation)
          /\ (app.scrollEvent /\ app'.activeIndex # app.activeIndex) => ~app'.isLanded
          /\ (StopTimerFired
                /\ app'.activeIndex \notin IMAGE_ENTRY_INDEX_SET(app'.orientation)) =>
                ~app'.isLanded
      ]_vars

\* C16: in Snap mode (not ImagesOnly), after one directional step taken from
\* index c in direction d and no further input, the system eventually settles
\* with activeIndex = findNextImageIndex(c, d) and isLanded = true, on desktop
\* and on mobile viewports.
StepSettlesOnNextImage ==
    <>[](call.fn = "stepToImage" =>
            (app.activeIndex = call.target /\ app.isLanded))

\* C17: submitting a password equal to the secret (exact, case-sensitive) sets
\* isAuthenticated, clears authError and stores 'ok' under the session key,
\* whatever submissions failed before it.
UnlockOnSecret ==
    (call.fn = "handleUnlock" /\ call.passwordInput = SITE_PASSWORD)
        => (app.isAuthenticated /\ app.authError = "" /\ app.sessionOk)

UnlockAfterMismatches ==
    /\ call.fn = "handleUnlock" /\ call.passwordInput = SITE_PASSWORD
    /\ call.attempts = MaxAttempts
    /\ call.before.authError = "Incorrect password"
    /\ ~call.before.sessionOk
    /\ app.isAuthenticated

\* C18: submitting any other password sets authError to 'Incorrect password'
\* and changes nothing else: the gate stays, nothing is stored.
MismatchOnlySetsError ==
    (call.fn = "handleUnlock" /\ call.passwordInput # SITE_PASSWORD)
        => app = [call.before EXCEPT !.authError = "Incorrect password"]

MismatchInLetterCase ==
    /\ call.fn = "handleUnlock" /\ call.passwordInput = "Passcode"
    /\ call.before.authError = ""
    /\ app.authError = "Incorrect password"
    /\ ~app.isAuthenticated /\ ~app.sessionOk

\* C19: after unmount none of the timers the component scheduled (scroll-stop,
\* digit-buffer reset, wheel-gesture re-arm, wheel-delta reset, snap finalize,
\* lock release, sidebar align, previous-image clear) and no animation-frame
\* callback fires.
NoCallbackAfterUnmount ==
    call.fn = "unmount" => call.fired = {}

\* C20: when several image requests of BackgroundFrame are outstanding and
\* complete in any order, only the most recently issued request commits
\* renderedImageUrl and renderedImageIndex; the completion (load or error) of
\* an older request never overwrites what a newer one committed, also when the
\* newer one was committed at once from the already-loaded set.
OnlyLatestRequestCommits ==
    call.fn = "BackgroundFrame" => call.commitSeq = call.commitIssued

StaleCompletionIgnored ==
    /\ call.fn = "BackgroundFrame"
    /\ call.commitBy = "loaded set"
    /\ call.ignored # <<>>
    /\ call.ignored[1].seq < call.ignored[1].after
    /\ call.ignored[1].after = call.commitSeq
    /\ call.renderedImageUrl = activeImageUrl(app.activeIndex)
    /\ call.renderedImageIndex = app.activeIndex

\* C21: at most one animation-frame interpolation is active at a time: starting
\* a new directional animation cancels the pending frame of the one in flight,
\* so a replaced animation never writes scrollTop or activeIndex again.
OneInterpolationActive ==
    Len(app.snapAnim) <= 1

AnimationReplacedInFlight ==
    /\ call.fn = "stepToImage"
    /\ call.inFlight # <<>>
    /\ call.distance > SNAP_IMAGE_HOLD_THRESHOLD /\ ~app.isMobileViewport
    /\ Len(app.snapAnim) = 1
    /\ app.snapAnim[1].targetIndex = call.target
    /\ app.snapFinalizeTimeout = <<[target |-> call.target]>>

\* C22: in Snap and ImagesOnly modes a wheel event starts a directional step
\* only when the re-entrancy lock is free (on desktop Snap only once the
\* accumulated delta has reached magnitude 26); the step takes the lock, which
\* is released only when that step's settle timer fires; wheel events that
\* arrive while the lock is held start no step and do not move the scroll
\* position.
WheelStepHoldsLockUntilSettled ==
    /\ \A w \in Range(call.wheel) :
          /\ (w.stepMode /\ w.stepped) => (~w.lockBefore /\ w.reached)
          /\ (w.stepMode /\ w.lockBefore) => (~w.stepped /\ ~w.moved)
    /\ call.wheelStep = "settling" => app.altScrollLock

\* C23: between a touchstart and the following touchend or touchcancel,
\* stepToImage is called at most once, however many touchmove events exceed
\* the threshold of 24 pixels, and never for a drag below the threshold; the
\* trigger is re-armed only by the next touchstart.
OneStepPerTouchGesture ==
    /\ call.touchSteps <= 1
    /\ call.touchSteps > 0 => Abs(call.touchDrag) >= 24
    /\ ~call.strayStep

TouchStepTaken ==
    /\ call.touchOpen /\ call.touchSteps = 1
    /\ app.touchStepTriggered
    /\ ~app.altScrollLock /\ app.lockReleaseTimers = 0

\* the first record with the postcode, NULL when there is none
FirstIndexOf(postcode) ==
    IF \E i \in Indices(LIST_LENGTH) : POSTCODES(LIST_LENGTH)[i] = postcode
    THEN CHOOSE i \in Indices(LIST_LENGTH) :
            /\ POSTCODES(LIST_LENGTH)[i] = postcode
            /\ \A j \in 0..(i - 1) : POSTCODES(LIST_LENGTH)[j] # postcode
    ELSE NULL

PostcodeTyped ==
    call.fn = "handleKeyDown" /\ Len(call.typed) = 4 /\ FirstIndexOf(call.typed) # NULL

DigitBufferLifecycle ==
    /\ call.fn = "handleKeyDown" =>
          /\ Len(app.inputBuffer) <= 3
          /\ app.inputBuffer = IF Len(call.typed) = 4 THEN <<>> ELSE call.typed
          /\ (Len(call.typed) = 4 /\ FirstIndexOf(call.typed) = NULL) =>
                /\ app.activeIndex = call.before.activeIndex
                /\ app.scrollTop = call.before.scrollTop
                /\ app.isLanded = call.before.isLanded
    /\ call.fn = "inputTimeout" => app.inputBuffer = <<>>

UnmatchedPostcodeTyped ==
    /\ call.fn = "handleKeyDown" /\ Len(call.typed) = 4
    /\ FirstIndexOf(call.typed) = NULL
    /\ call.before.isAuthenticated /\ call.before.inputBuffer = <<2, 0, 1>>
    /\ app.inputBuffer = <<>>

\* C28: scrollToIndex(i) seeks inside the current cycle: with current offset c
\* it requests T = floor(c / listHeight) * listHeight + (i mod N) * step, so T
\* lies in the cycle of c, shows the index i mod N, and is less than one
\* listHeight away from c, even when the equivalent offset in a neighbouring
\* cycle is closer; the scroll layer receives T clamped to its range.
SeekStaysInCurrentCycle ==
    call.fn = "scrollTo" =>
        LET lh == LIST_PIXEL_HEIGHT(LIST_LENGTH)
            c == call.currentScroll
            T == call.top
        IN  /\ T = (c \div lh) * lh + (call.targetIndex % LIST_LENGTH) * BASE_STEP_HEIGHT
            /\ T \div lh = c \div lh
            /\ (T % lh) \div BASE_STEP_HEIGHT = call.targetIndex % LIST_LENGTH
            /\ T - c < lh /\ c - T < lh
            /\ app.activeIndex = call.targetIndex % LIST_LENGTH
            /\ IF call.behavior = "smooth" /\ Clamp(T, LIST_LENGTH) # c
               THEN app.smoothTarget = Clamp(T, LIST_LENGTH) /\ app.scrollTop = c
               ELSE app.scrollTop = Clamp(T, LIST_LENGTH)

SeekPastCloserNeighbour ==
    /\ call.fn = "scrollTo"
    /\ LIST_LENGTH >= 3
    /\ call.currentScroll > 0
    /\ call.currentScroll - call.top > BASE_STEP_HEIGHT
    /\ call.top + LIST_PIXEL_HEIGHT(LIST_LENGTH) - call.currentScroll = 1
    /\ app.scrollTop = call.top

FourDigits(postcode) ==
    Len(postcode) = 4 /\ \A i \in 1..Len(postcode) : postcode[i] \in DigitChars

\* the entries of the index with the postcode and the orientation of the call
MatchingEntries ==
    SelectSeq(call.index, LAMBDA entry :
        entry.postcode = call.postcode /\ entry.orientation = call.orientation)

\* C25: resolvePostcodeImage returns none iff the image index has no entry
\* with exactly that postcode and exactly that orientation; a returned URL
\* belongs to an entry with that postcode and that orientation, never to an
\* entry of the other orientation.
ResolvesWithinPostcodeAndOrientation ==
    call.fn = "resolvePostcodeImage" =>
        /\ call.url = NULL <=> MatchingEntries = <<>>
        /\ call.url # NULL =>
              /\ \E k \in 1..Len(MatchingEntries) : MatchingEntries[k].url = call.url
              /\ \A k \in 1..Len(call.index) :
                    call.index[k].url = call.url =>
                        /\ call.index[k].postcode = call.postcode
                        /\ call.index[k].orientation = call.orientation

NoFallbackToOtherOrientation ==
    /\ call.fn = "resolvePostcodeImage"
    /\ call.url = NULL
    /\ \E k \in 1..Len(call.index) :
          /\ call.index[k].postcode = call.postcode
          /\ call.index[k].orientation # call.orientation

\* the values the rules give an entry: the base 5 and, for every
\* candidate token that is neither empty nor ends in an underscore, the value
\* of its first rule that applies
RuleScores(entry) ==
    LET suburbToken == normalizeForMatch(call.suburb)
        expected == expectedTokens(call.postcode, suburbToken, call.orientation)
        usable == {i \in 0..3 : expected[i + 1] # <<>>
                                  /\ expected[i + 1][Len(expected[i + 1])] # "_"}
    IN  {5}
        \cup {100 - 10 * i : i \in {j \in usable : entry.normalizedName = expected[j + 1]}}
        \cup {80 - 8 * i : i \in {j \in usable :
                  /\ entry.normalizedName # expected[j + 1]
                  /\ startsWith(entry.normalizedName, expected[j + 1])}}
        \cup {45 - 2 * i : i \in {j \in usable :
                  /\ ~startsWith(entry.normalizedName, expected[j + 1])
                  /\ includes(entry.normalizedName, suburbToken)}}

MaxScore(entry) == CHOOSE v \in RuleScores(entry) : \A w \in RuleScores(entry) : v >= w

\* C26: among the pool entries resolvePostcodeImage returns the URL of the
\* entry with the maximum score, the first in pool order on ties; the score
\* is the maximum of the base 5 and, over the candidate tokens i = 0..3 that
\* are neither empty nor end in an underscore, 100 - 10i on an exact
\* normalized-name match, else 80 - 8i on a prefix match, else 45 - 2i when
\* the name contains the suburb token.
ResolvesToFirstMaximumScore ==
    (call.fn = "resolvePostcodeImage" /\ MatchingEntries # <<>>) =>
        \E k \in 1..Len(MatchingEntries) :
            /\ call.url = MatchingEntries[k].url
            /\ \A j \in 1..Len(MatchingEntries) :
                  MaxScore(MatchingEntries[j]) <= MaxScore(MatchingEntries[k])
            /\ \A j \in 1..(k - 1) :
                  MaxScore(MatchingEntries[j]) < MaxScore(MatchingEntries[k])

TieAfterLowerScore ==
    /\ call.fn = "resolvePostcodeImage"
    /\ Len(MatchingEntries) = 3
    /\ MaxScore(MatchingEntries[1]) < MaxScore(MatchingEntries[2])
    /\ MaxScore(MatchingEntries[2]) = MaxScore(MatchingEntries[3])
    /\ call.url = MatchingEntries[2].url

\* C27: every ImageAsset postcode and every PostcodeRecord postcode is a
\* string of exactly four decimal digits (zero-padded), for every indexed
\* file name and every accepted catalog row.
EveryPostcodeHasFourDigits ==
    /\ call.fn = "IMAGE_INDEX" =>
          \A k \in 1..Len(call.index) : FourDigits(call.index[k].postcode)
    /\ call.fn = "POSTCODES" =>
          \A k \in 1..Len(call.data) : FourDigits(call.data[k].postcode)

\* the hold window of a Snap step is open
InSnapHold == app.snapImageHold /\ app.isAltScrollMode /\ ~app.isImagesMode

\* C29: in Snap mode (not ImagesOnly) a directional step of at most 7 records
\* sets isLanded true and opens the hold; no scroll event handled and no
\* scroll-stop timer firing inside the hold sets isLanded to false.
SnapHoldKeepsLanded ==
    [][(/\ InSnapHold /\ app.isLanded
        /\ \/ app.scrollEvent /\ app'.stopTimeout # <<>>
           \/ app.stopTimeout # <<>> /\ app'.stopTimeout = <<>>)
       => app'.isLanded]_vars

\* C31: the gate is one-way and the session flag is earned: once
\* isAuthenticated is true it never becomes false while the page stays
\* loaded; the session key is written with 'ok' only by a submission that
\* equals the secret; at startup the gate is skipped iff the key holds 'ok'.
GateOneWayAndFlagEarned ==
    [][/\ (call'.restored /\ app.isAuthenticated) => app'.isAuthenticated
       /\ (call.stored # "ok" /\ call'.stored = "ok") =>
             /\ call'.fn = "handleUnlock"
             /\ call'.passwordInput = SITE_PASSWORD
       /\ (~call.restored /\ call'.restored) =>
             (app'.isAuthenticated <=> call.stored = "ok")]_vars

\* a page load that skips the gate on the flag an earlier load earned
GateSkippedAfterReload ==
    /\ call.fn = "restore" /\ call.passwordInput = SITE_PASSWORD
    /\ app.isAuthenticated /\ app.authError = ""


\* C32: a directional step starts only while altScrollLock is free, whatever
\* input requests it (wheel, touch drag, arrow key); at most one step is in
\* progress at a time, and the lock is held from the start of a step until
\* the settle timer of that step fires.
StepStartsOnlyWhileLockFree ==
    [][/\ app'.lockReleaseTimers > app.lockReleaseTimers => ~app.altScrollLock
       /\ app'.lockReleaseTimers <= 1
       /\ app'.lockReleaseTimers > 0 => app'.altScrollLock]_vars


UnlockedStartsInMiddleCycle ==
    (call.restored /\ app.isAuthenticated /\ app.inputs = 0) =>
        /\ app.scrollTop =
              (VIRTUAL_MULTIPLIER(LIST_LENGTH) \div 2) * LIST_PIXEL_HEIGHT(LIST_LENGTH)
                 + app.activeIndex * BASE_STEP_HEIGHT
        /\ RawIndex(app.scrollTop, LIST_LENGTH) = app.activeIndex


\* C35: whenever BackgroundFrame has a committed image, renderedImageUrl is
\* the resolved image URL of the record at renderedImageIndex (so the landed
\* footer names the postcode of the image on screen), in every mode, stack
\* modes included, also when activeIndex passes over records without an image.
RenderedUrlBelongsToRenderedIndex ==
    call.renderedImageUrl # NULL =>
        call.renderedImageUrl = activeImageUrl(call.renderedImageIndex)


\* C36: in Snap mode (not ImagesOnly) with at least one image-bearing index,
\* after a single input (sidebar dot, postcode jump or directional step) and
\* no further input the system comes to rest with isLanded = true on an
\* image-bearing activeIndex, also when the requested offset equals the
\* current one, so that no scroll event follows.
RestsLandedOnImage ==
    Quiescent(app) =>
        (app.isLanded /\ app.activeIndex \in IMAGE_ENTRY_INDEX_SET(app.orientation))


\* C37: no lock is held for ever: every directional step that takes
\* altScrollLock and every wheel gesture that takes the wheel-gesture lock is
\* followed, with no further input, by the release of that lock.
LocksAreReleased ==
    /\ app.altScrollLock ~> ~app.altScrollLock
    /\ app.snapWheelGestureLock ~> ~app.snapWheelGestureLock

\* a wheel step has taken both locks and both have been released
WheelStepLocksReleased ==
    /\ call.wheelStep = "settled"
    /\ ~app.altScrollLock /\ ~app.snapWheelGestureLock
    /\ app.lockReleaseTimers = 0 /\ ~app.snapWheelGestureTimeout

\* C38 as stated: findNearestImageIndex always returns an image-bearing index
\* and maps every image-bearing index to itself, so the coercion effect
\* reaches a fixed point after at most one re-seek.
CoercionAlwaysFindsImage ==
    /\ call.fn = "findNearestImageIndex" =>
          /\ call.result \in Images
          /\ Wrap(call.fromIndex, LIST_LENGTH) \in Images =>
                call.result = Wrap(call.fromIndex, LIST_LENGTH)
    /\ call.fn = "coercionEffect" => call.twice = call.once

\* C38: the ImagesOnly coercion terminates: with at least one image-bearing
\* index findNearestImageIndex returns an image-bearing index and maps every
\* image-bearing index to itself, so the effect reaches a fixed point after at
\* most one re-seek, for every activeIndex, image set and orientation; with
\* no image-bearing index it returns null and the effect changes nothing.
CoercionReachesFixedPoint ==
    /\ call.fn = "findNearestImageIndex" =>
          /\ Images # {} => call.result \in Images
          /\ Images = {} => call.result = NULL
          /\ Wrap(call.fromIndex, LIST_LENGTH) \in Images =>
                call.result = Wrap(call.fromIndex, LIST_LENGTH)
    /\ call.fn = "coercionEffect" =>
          LET images == IMAGE_ENTRY_INDEX_SET(call.before.orientation)
          IN  /\ call.twice = call.once
              /\ images # {} =>
                    (call.once.activeIndex \in images /\ call.once.isLanded)
              /\ images = {} => call.once = call.before

\* the effect found a record without image and sought the nearest image
CoercionReSeeks ==
    /\ call.fn = "coercionEffect"
    /\ call.once.activeIndex # call.before.activeIndex
    /\ call.once.scrollTop # call.before.scrollTop

====
